---- MODULE Spec2Model ----
(***************************************************************************)
(* Model of the chess analysis pipeline of AI_Model_Code:                  *)
(*   chess_analyzer.py  ChessAnalyzer (engine, evaluation cache, replay),  *)
(*                      extract_features                                   *)
(*   ml_inference.py    MLInferenceEngine (analyze_games, predictions,     *)
(*                      strengths, weaknesses, recommendation)             *)
(*   main.py            analyze_player (the request handler)               *)
(*                                                                         *)
(* Numbers.  Evaluations and centipawn losses are integer valued floats in *)
(* the code (every one is passed through round()), so they are integers    *)
(* here.  Clock values are in centiseconds.  -1 stands for Python's None   *)
(* wherever the code has an Optional[float].  A board is abstracted to the *)
(* layout it shows (an index into a table of layouts) and the number of    *)
(* plies pushed; board.fen() serialises both (piece placement, side to     *)
(* move, full-move number).                                                *)
(***************************************************************************)
EXTENDS Integers, Sequences, FiniteSets, TLC

VARIABLES
  player_name,     \* request.player_name, a sequence of characters
  batch,           \* pgn_strings: the request's games, a sequence of parsed-PGN records
  oracle,          \* the engine: whether its process starts, and what it may
                   \* answer for each FEN
  models,          \* MLInferenceEngine.models: category -> loaded artifact
  pc,              \* position of the request in analyze_player / analyze_games
  engine,          \* ChessAnalyzer.engine: "none", "running" or "quit"
  eval_cache,      \* ChessAnalyzer.eval_cache: position hash -> (score, best move)
  game_idx,        \* i + 1 of enumerate(pgn_games) in analyze_multiple_games
  analyses,        \* the list analyses of analyze_multiple_games
  player_color,    \* analyze_game: player_color
  board,           \* analyze_game: board
  node_idx,        \* analyze_game: 1-based index of the mainline node being replayed
  move_number,     \* analyze_game: move_number
  moves_analysis,  \* analyze_game: moves_analysis
  prev_clock,      \* analyze_game: [white |-> prev_clock_white, black |-> prev_clock_black]
  pending,         \* analyze_game: eval_before, best_move, time_spent, current_clock
                   \* of the move between its two evaluations
  response,        \* what analyze_player gave the caller
  request_no,      \* number of the request being served
  prev_run,        \* the response and the analyses of the previous request
  parked,          \* the request being served concurrently, while it is not running
  unit_in,         \* the arguments of a function applied on its own
  unit_out,        \* its result
  engine_calls,    \* history: position hash -> number of engine.analyse calls
  returned,        \* history: position hash -> results analyze_position returned
  game_log,        \* history: per game of the batch, how analyze_game ended
  engine_failed    \* history: the (game, ply, "before"/"after") whose engine call raised

vars == <<player_name, batch, oracle, models, pc, engine, eval_cache, game_idx,
          analyses, player_color, board, node_idx, move_number, moves_analysis,
          prev_clock, pending, response, request_no, prev_run, parked, unit_in,
          unit_out,
          engine_calls, returned, game_log, engine_failed>>

inputs == <<player_name, batch, oracle, models>>
replay == <<player_color, board, node_idx, move_number, moves_analysis, prev_clock,
            pending>>
requests == <<response, request_no, prev_run, parked>>
unit == <<unit_in, unit_out>>

None == -1

----------------------------------------------------------------------------
(* Bounds of the model *)

\* longest batch of games in a request
MaxGames == 2
\* number of times the same request is served
MaxRequests == 2

----------------------------------------------------------------------------
(* Program constants *)

BEST_THRESHOLD == 10
GOOD_THRESHOLD == 25
INACCURACY_THRESHOLD == 50
MISTAKE_THRESHOLD == 100
BLUNDER_THRESHOLD == 200
BRILLIANT_GAIN == 50
MAX_CP_LOSS == 500
\* the mate sentinel of _eval_to_centipawns
MATE_SCORE == 10000
\* analyze_game: fewest records a replay that raised must have produced
MIN_MOVES_ON_ERROR == 5

Min(a, b) == IF a < b THEN a ELSE b
Max(a, b) == IF a > b THEN a ELSE b

----------------------------------------------------------------------------
(* Strings: str.lower() and the substring test `a in b` *)

LowerChar(c) ==
  CASE c = "A" -> "a"
    [] c = "B" -> "b"
    [] c = "L" -> "l"
    [] c = "O" -> "o"
    [] OTHER -> c

Lower(s) == [i \in 1..Len(s) |-> LowerChar(s[i])]

IsSubstring(a, b) ==
  \E k \in 0..(Len(b) - Len(a)) : \A i \in 1..Len(a) : b[k + i] = a[i]

----------------------------------------------------------------------------
(* Boards *)

\* len(board.piece_map()) of each layout; layout 0 is the standard start
LayoutPieces(l) ==
  CASE l = 0 -> 32
    [] l \in 1..3 -> 32
    [] l = 4 -> 31
    [] l \in 10..19 -> 30
    [] l = 20 -> 14
    [] l = 21 -> 12
    [] l \in {22, 23} -> 16
    [] l = 24 -> 17
    [] l = 25 -> 13
    [] OTHER -> 32

\* bool(board.queens) of each layout
LayoutQueens(l) ==
  CASE l \in {20, 23, 24} -> FALSE
    [] OTHER -> TRUE

StartBoard == [layout |-> 0, ply |-> 0]

\* board.push(move): the move of a mainline node leads to that node's layout
Push(b, ply) == [layout |-> ply.layout, ply |-> b.ply + 1]

\* board.turn == chess.WHITE
WhiteToMove(b) == b.ply % 2 = 0

\* board.fen(): placement, side to move, full-move number
Fen(b) == <<b.layout, IF WhiteToMove(b) THEN "w" ELSE "b", (b.ply \div 2) + 1>>

\* hashlib.md5(...).hexdigest(): a digest of the whole FEN string
Md5(fen) == (fen[1] * 2 + (IF fen[2] = "w" THEN 0 ELSE 1)) * 64 + fen[3]

_get_position_hash(b) == Md5(Fen(b))

_get_game_phase(b, mv) ==
  LET num_pieces == LayoutPieces(b.layout)
      has_queens == LayoutQueens(b.layout)
  IN IF num_pieces <= 12 \/ (~has_queens /\ num_pieces <= 16) THEN "endgame"
     ELSE IF mv <= 12 THEN "opening"
     ELSE "middlegame"

----------------------------------------------------------------------------
(* The engine (chess.engine.SimpleEngine) *)

\* One answer of engine.analyse: it raises, or gives info["score"].white() as a
\* centipawn score or a mate distance, and the first move of info["pv"] ("" when
\* the engine gives no principal variation).
RaiseOutcome == [kind |-> "raise", v |-> 0, pv |-> ""]
CpOutcome(v, pv) == [kind |-> "cp", v |-> v, pv |-> pv]
MateOutcome(n, pv) == [kind |-> "mate", v |-> n, pv |-> pv]

\* an engine whose answer to a position is not fixed: any of these, each call
FreeOutcomes ==
  {RaiseOutcome, CpOutcome(30, "e2e4"), MateOutcome(-2, "")}

\* a variant: an engine searching to a time limit, whose answer to a position
\* is not fixed by the position
EngineOutcomesUnfixed(b) == FreeOutcomes

\* engine.analyse(board, Limit(depth=ANALYSIS_DEPTH)): the answers the engine
\* process may give for this board
EngineOutcomes(b) == oracle.analyse[Fen(b)]

_eval_to_centipawns(eval_info, perspective_white) ==
  LET score == IF eval_info.kind = "mate"
               THEN (IF eval_info.v > 0 THEN MATE_SCORE ELSE -MATE_SCORE)
               ELSE eval_info.v
  IN IF perspective_white THEN score ELSE -score

(* a variant of analyze_position without the except clause of lines 191-194: *)
(* a failing engine call propagates                                           *)
analyze_position_raising(cache, b, o) ==
  LET pos_hash == _get_position_hash(b) IN
  IF pos_hash \in DOMAIN cache
  THEN [result |-> cache[pos_hash], cache |-> cache, invoked |-> FALSE,
        failed |-> FALSE, raised |-> FALSE]
  ELSE IF o.kind = "raise"
  THEN [result |-> <<0, "">>, cache |-> cache, invoked |-> TRUE,
        failed |-> TRUE, raised |-> TRUE]
  ELSE LET result == <<_eval_to_centipawns(o, TRUE), o.pv>>
       IN [result |-> result, cache |-> cache @@ (pos_hash :> result),
           invoked |-> TRUE, failed |-> FALSE, raised |-> FALSE]

(* a variant of analyze_position whose cache holds the latest result only *)
analyze_position_evicting(cache, b, o) ==
  LET pos_hash == _get_position_hash(b) IN
  IF pos_hash \in DOMAIN cache
  THEN [result |-> cache[pos_hash], cache |-> cache, invoked |-> FALSE,
        failed |-> FALSE, raised |-> FALSE]
  ELSE IF o.kind = "raise"
  THEN [result |-> <<0, "">>, cache |-> cache, invoked |-> TRUE,
        failed |-> TRUE, raised |-> FALSE]
  ELSE LET result == <<_eval_to_centipawns(o, TRUE), o.pv>>
       IN [result |-> result, cache |-> (pos_hash :> result),
           invoked |-> TRUE, failed |-> FALSE, raised |-> FALSE]

(* analyze_position(board), with the engine answering o on a cache miss.       *)
(* result: the pair returned; cache: eval_cache afterwards; invoked: whether   *)
(* engine.analyse was called; raised: whether the call propagates an exception *)
analyze_position(cache, b, o) ==
  LET pos_hash == _get_position_hash(b) IN
  IF pos_hash \in DOMAIN cache
  THEN [result |-> cache[pos_hash], cache |-> cache, invoked |-> FALSE,
        failed |-> FALSE, raised |-> FALSE]
  ELSE IF o.kind = "raise"
  THEN [result |-> <<0, "">>, cache |-> cache, invoked |-> TRUE,
        failed |-> TRUE, raised |-> FALSE]
  ELSE LET result == <<_eval_to_centipawns(o, TRUE), o.pv>>
       IN [result |-> result, cache |-> cache @@ (pos_hash :> result),
           invoked |-> TRUE, failed |-> FALSE, raised |-> FALSE]

\* a variant of _classify_move whose is_good has no lower threshold
_classify_move_overlapping(cp_loss_in, eval_before, eval_after) ==
  LET cp_loss == Min(cp_loss_in, MAX_CP_LOSS)
      eval_gain == eval_after - eval_before
  IN [is_brilliant  |-> eval_gain >= BRILLIANT_GAIN,
      is_best       |-> cp_loss <= BEST_THRESHOLD,
      is_good       |-> cp_loss <= GOOD_THRESHOLD,
      is_inaccuracy |-> INACCURACY_THRESHOLD <= cp_loss /\ cp_loss < MISTAKE_THRESHOLD,
      is_mistake    |-> MISTAKE_THRESHOLD <= cp_loss /\ cp_loss < BLUNDER_THRESHOLD,
      is_blunder    |-> cp_loss >= BLUNDER_THRESHOLD]

\* a variant of _classify_move whose tiers leave no gap: an inaccuracy starts
\* where good ends
_classify_move_ungapped(cp_loss_in, eval_before, eval_after) ==
  LET cp_loss == Min(cp_loss_in, MAX_CP_LOSS)
      eval_gain == eval_after - eval_before
  IN [is_brilliant  |-> eval_gain >= BRILLIANT_GAIN,
      is_best       |-> cp_loss <= BEST_THRESHOLD,
      is_good       |-> BEST_THRESHOLD < cp_loss /\ cp_loss <= GOOD_THRESHOLD,
      is_inaccuracy |-> GOOD_THRESHOLD < cp_loss /\ cp_loss < MISTAKE_THRESHOLD,
      is_mistake    |-> MISTAKE_THRESHOLD <= cp_loss /\ cp_loss < BLUNDER_THRESHOLD,
      is_blunder    |-> cp_loss >= BLUNDER_THRESHOLD]

_classify_move(cp_loss_in, eval_before, eval_after) ==
  LET cp_loss == Min(cp_loss_in, MAX_CP_LOSS)
      eval_gain == eval_after - eval_before
  IN [is_brilliant  |-> eval_gain >= BRILLIANT_GAIN,
      is_best       |-> cp_loss <= BEST_THRESHOLD,
      is_good       |-> BEST_THRESHOLD < cp_loss /\ cp_loss <= GOOD_THRESHOLD,
      is_inaccuracy |-> INACCURACY_THRESHOLD <= cp_loss /\ cp_loss < MISTAKE_THRESHOLD,
      is_mistake    |-> MISTAKE_THRESHOLD <= cp_loss /\ cp_loss < BLUNDER_THRESHOLD,
      is_blunder    |-> cp_loss >= BLUNDER_THRESHOLD]

----------------------------------------------------------------------------
(* analyze_game: the pieces of one replay step *)

\* a variant of lines 215-220 that compares the names as they are written
PlayerColorCaseSensitive(name, game) ==
  IF IsSubstring(name, game.white) THEN "white"
  ELSE IF IsSubstring(name, game.black) THEN "black"
  ELSE "white"

\* lines 215-220: the colour analysed
PlayerColor(name, game) ==
  IF IsSubstring(Lower(name), Lower(game.white)) THEN "white"
  ELSE IF IsSubstring(Lower(name), Lower(game.black)) THEN "black"
  ELSE "white"

\* a variant of lines 242-251 that keeps one previous clock for both sides
ClockStepShared(prev, is_white_move, current_clock) ==
  [time_spent |-> IF current_clock # None /\ prev.white # None
                  THEN Max(0, prev.white - current_clock) ELSE None,
   prev |-> IF current_clock = None THEN prev
            ELSE [white |-> current_clock, black |-> current_clock]]

\* lines 242-251: time spent on the node's move, and the previous clocks after it
ClockStep(prev, is_white_move, current_clock) ==
  LET p == IF is_white_move THEN prev.white ELSE prev.black IN
  [time_spent |-> IF current_clock # None /\ p # None
                  THEN Max(0, p - current_clock) ELSE None,
   prev |-> IF current_clock = None THEN prev
            ELSE IF is_white_move THEN [prev EXCEPT !.white = current_clock]
            ELSE [prev EXCEPT !.black = current_clock]]

\* a variant of lines 253-254 that takes every move for the player's
IsAnyMove(color, b) == TRUE

\* lines 253-254: the node's move is a move of the analysed player
IsPlayerMove(color, b) ==
  (color = "white" /\ WhiteToMove(b)) \/ (color = "black" /\ ~WhiteToMove(b))

\* a variant of the MoveAnalysis construction whose loss is the distance of the
\* two evaluations, whichever is larger
MakeMoveAnalysisAbsLoss(color, mv, uci, raw_before, raw_after, best_move, time_spent, current_clock, board_after) ==
  LET eval_before == IF color = "black" THEN -raw_before ELSE raw_before
      eval_after == IF color = "black" THEN -raw_after ELSE raw_after
      cp_loss == Min(Max(eval_after - eval_before, eval_before - eval_after), MAX_CP_LOSS)
      q == _classify_move(cp_loss, eval_before, eval_after)
  IN [move_number |-> mv, move |-> uci,
      eval_before |-> eval_before, eval_after |-> eval_after,
      centipawn_loss |-> cp_loss, best_move |-> best_move,
      time_spent |-> time_spent, clock_remaining |-> current_clock,
      phase |-> _get_game_phase(board_after, mv),
      is_blunder |-> q.is_blunder, is_mistake |-> q.is_mistake,
      is_inaccuracy |-> q.is_inaccuracy, is_good |-> q.is_good,
      is_best |-> q.is_best, is_brilliant |-> q.is_brilliant]

\* a variant of the MoveAnalysis construction without the cap of line 271
MakeMoveAnalysisUncapped(color, mv, uci, raw_before, raw_after, best_move, time_spent, current_clock, board_after) ==
  LET eval_before == IF color = "black" THEN -raw_before ELSE raw_before
      eval_after == IF color = "black" THEN -raw_after ELSE raw_after
      cp_loss == Max(0, eval_before - eval_after)
      q == _classify_move(cp_loss, eval_before, eval_after)
  IN [move_number |-> mv, move |-> uci,
      eval_before |-> eval_before, eval_after |-> eval_after,
      centipawn_loss |-> cp_loss, best_move |-> best_move,
      time_spent |-> time_spent, clock_remaining |-> current_clock,
      phase |-> _get_game_phase(board_after, mv),
      is_blunder |-> q.is_blunder, is_mistake |-> q.is_mistake,
      is_inaccuracy |-> q.is_inaccuracy, is_good |-> q.is_good,
      is_best |-> q.is_best, is_brilliant |-> q.is_brilliant]

\* a variant of line 278 that takes the phase of the ply, not of the player's move
PhaseIndexByPly(mv, board_after) == board_after.ply

\* line 278: the move index _get_game_phase is given
PhaseIndex(mv, board_after) == mv

\* lines 267-291: the MoveAnalysis of a move, from the two raw evaluations
\* (white's perspective) and the board after the move
MakeMoveAnalysis(color, mv, uci, raw_before, raw_after, best_move, time_spent, current_clock, board_after) ==
  LET eval_before == IF color = "black" THEN -raw_before ELSE raw_before
      eval_after == IF color = "black" THEN -raw_after ELSE raw_after
      cp_loss == Min(Max(0, eval_before - eval_after), MAX_CP_LOSS)
      q == _classify_move(cp_loss, eval_before, eval_after)
  IN [move_number |-> mv, move |-> uci,
      eval_before |-> eval_before, eval_after |-> eval_after,
      centipawn_loss |-> cp_loss, best_move |-> best_move,
      time_spent |-> time_spent, clock_remaining |-> current_clock,
      phase |-> _get_game_phase(board_after, PhaseIndex(mv, board_after)),
      is_blunder |-> q.is_blunder, is_mistake |-> q.is_mistake,
      is_inaccuracy |-> q.is_inaccuracy, is_good |-> q.is_good,
      is_best |-> q.is_best, is_brilliant |-> q.is_brilliant]

\* a variant of the end of analyze_game that gives up the last record of a
\* replay that raised
GameResultDroppingLast(color, result, moves, raised) ==
  LET kept == IF raised /\ moves # <<>> THEN SubSeq(moves, 1, Len(moves) - 1) ELSE moves IN
  IF raised /\ Len(moves) < MIN_MOVES_ON_ERROR THEN [kept |-> FALSE]
  ELSE IF Len(moves) = 0 THEN [kept |-> FALSE]
  ELSE [kept |-> TRUE,
        analysis |-> [player_color |-> color, result |-> result, moves |-> kept,
                      total_moves |-> Len(moves)]]

\* a variant of the end of analyze_game without the check of lines 298-299
GameResultAnyLength(color, result, moves, raised) ==
  IF Len(moves) = 0 THEN [kept |-> FALSE]
  ELSE [kept |-> TRUE,
        analysis |-> [player_color |-> color, result |-> result, moves |-> moves,
                      total_moves |-> Len(moves)]]

\* lines 295-314: what analyze_game returns once the replay loop is left, by an
\* exception (raised) or at the end of the mainline; kept says whether a
\* GameAnalysis is returned
GameResult(color, result, moves, raised) ==
  IF raised /\ Len(moves) < MIN_MOVES_ON_ERROR THEN [kept |-> FALSE]
  ELSE IF Len(moves) = 0 THEN [kept |-> FALSE]
  ELSE [kept |-> TRUE,
        analysis |-> [player_color |-> color, result |-> result, moves |-> moves,
                      total_moves |-> Len(moves)]]

NoPending == [raw_before |-> 0, best_move |-> "", time_spent |-> None,
              current_clock |-> None]
NoClocks == [white |-> None, black |-> None]

\* history: the results analyze_position has returned for a position hash
AddReturned(ret, h, r) ==
  IF h \in DOMAIN ret THEN [ret EXCEPT ![h] = @ \cup {r}] ELSE ret @@ (h :> {r})

\* history: the engine calls made for a position hash
AddCall(calls, h, invoked) ==
  IF ~invoked THEN calls
  ELSE IF h \in DOMAIN calls THEN [calls EXCEPT ![h] = @ + 1] ELSE calls @@ (h :> 1)

----------------------------------------------------------------------------
(* Inputs: games *)

NameBOB == <<"B", "O", "B">>
HeaderBob == <<"B", "o", "b", "b", "y">>
HeaderAl == <<"A", "l">>

\* A mainline node: the layout its move leads to, the clock of its comment
\* (node.clock(), else _parse_clk(node.comment)) and move.uci()
Node(layout, clk, uci) == [layout |-> layout, clk |-> clk, uci |-> uci]

(* What chess.pgn.read_game and the replay make of a PGN string.              *)
(*   kind "none": read_game returns None; "parse_error": read_game raises;    *)
(*   "raises": analyze_game raises outside its try blocks; "ok": parsed.      *)
(*   raise_at: the mainline node at which the replay loop raises, 0 if none.  *)
Pgn(kind, white, black, nodes, raise_at) ==
  [kind |-> kind, white |-> white, black |-> black, result |-> "1-0",
   nodes |-> nodes, raise_at |-> raise_at]

\* the player has white; two moves of the player
GameWhite ==
  Pgn("ok", HeaderBob, HeaderAl,
      <<Node(1, 30000, "e2e4"), Node(2, 30000, "e7e5"), Node(3, 29500, "g1f3")>>, 0)
\* the player has black; the same opening, one move of the player
GameBlack ==
  Pgn("ok", HeaderAl, HeaderBob,
      <<Node(1, None, "e2e4"), Node(2, 5000, "e7e5")>>, 0)
\* neither header names the player: analysed as white; one move
GameUnknown ==
  Pgn("ok", HeaderAl, HeaderAl, <<Node(1, None, "e2e4")>>, 0)
\* the player has black and the game ends before black moves
GameNoMoves ==
  Pgn("ok", HeaderAl, HeaderBob, <<Node(1, None, "d2d4")>>, 0)
\* the replay raises at the third node, after one record
GameAborted ==
  Pgn("ok", HeaderBob, HeaderAl,
      <<Node(1, None, "e2e4"), Node(2, None, "e7e5"), Node(3, None, "g1f3")>>, 3)
GameEmpty == Pgn("none", <<>>, <<>>, <<>>, 0)
GameGarbled == Pgn("parse_error", <<>>, <<>>, <<>>, 0)
GameRaising == Pgn("raises", <<>>, <<>>, <<>>, 0)

ShortGames == {GameWhite, GameBlack, GameUnknown, GameNoMoves, GameAborted,
               GameEmpty, GameRaising}

\* the batches of up to n games over a set of games
RECURSIVE Batches(_, _)
Batches(games, n) ==
  IF n = 0 THEN {<<>>}
  ELSE LET shorter == Batches(games, n - 1)
       IN shorter \cup {Append(b, g) : b \in {x \in shorter : Len(x) = n - 1}, g \in games}

\* the FENs of the boards a replay of these games can show
FensOf(games) ==
  {Fen(StartBoard)} \cup
  UNION {{Fen([layout |-> g.nodes[i].layout, ply |-> i]) : i \in 1..Len(g.nodes)} :
         g \in games}

----------------------------------------------------------------------------
(* The request: analyze_player -> analyze_games -> ChessAnalyzer *)

CurrentGame == batch[game_idx]

ReplayVarsIdle ==
  /\ player_color' = "white"
  /\ board' = StartBoard
  /\ node_idx' = 0
  /\ move_number' = 0
  /\ moves_analysis' = <<>>
  /\ prev_clock' = NoClocks
  /\ pending' = NoPending

\* ChessAnalyzer.__init__: the evaluation cache of a new analyzer
NewEvalCache == <<>>

\* chess_analyzer.py 83-84: popen_uci starts the engine process
StartEngine == "running"

\* a variant of __exit__ that leaves the engine process as it is
LeaveEngine(e) == e

\* chess_analyzer.py 107-109: __exit__ quits the engine if there is one
QuitEngine(e) == IF e # "none" THEN "quit" ELSE e

\* a variant of analyze_multiple_games without the try of lines 319-329: a game
\* that raises ends the loop
AbortBatch(i, n) == n + 1

\* chess_analyzer.py 326-329: the game to go on with after analyze_game raised
AfterGameRaised(i, n) == i + 1

LogEntry(how, raised, records) == [how |-> how, raised |-> raised, records |-> records]

(* ml_inference.py 194, chess_analyzer.py 73-105: the analyzer is constructed *)
(* and entered.                                                               *)
EnterAnalyzer ==
  /\ pc = "request"
  /\ "ok" \in oracle.start
  /\ pc' = "batch"
  /\ engine' = StartEngine
  /\ eval_cache' = NewEvalCache
  /\ game_idx' = 1
  /\ analyses' = <<>>
  /\ UNCHANGED <<inputs, unit, replay, requests, engine_calls, returned, game_log,
                 engine_failed>>

(* chess_analyzer.py 204-210, 319-323: read_game returns None or raises, *)
(* analyze_game returns None and the batch goes on.                      *)
GameUnparsed ==
  /\ pc = "batch" /\ game_idx <= Len(batch)
  /\ CurrentGame.kind \in {"none", "parse_error"}
  /\ game_idx' = game_idx + 1
  /\ game_log' = Append(game_log, LogEntry("none", FALSE, 0))
  /\ UNCHANGED <<inputs, unit, pc, engine, eval_cache, analyses, replay, requests,
                 engine_calls, returned, engine_failed>>

(* chess_analyzer.py 212-220 raising (outside the try blocks of analyze_game), *)
(* caught at 326-329.                                                          *)
GameRaises ==
  /\ pc = "batch" /\ game_idx <= Len(batch)
  /\ CurrentGame.kind = "raises"
  /\ game_idx' = AfterGameRaised(game_idx, Len(batch))
  /\ game_log' = Append(game_log, LogEntry("raised", TRUE, 0))
  /\ UNCHANGED <<inputs, unit, pc, engine, eval_cache, analyses, replay, requests,
                 engine_calls, returned, engine_failed>>

(* chess_analyzer.py 204-231: the game is parsed and the replay set up *)
GameParsed ==
  /\ pc = "batch" /\ game_idx <= Len(batch)
  /\ CurrentGame.kind = "ok"
  /\ pc' = "replay"
  /\ player_color' = PlayerColor(player_name, CurrentGame)
  /\ board' = StartBoard
  /\ node_idx' = 1
  /\ move_number' = 0
  /\ moves_analysis' = <<>>
  /\ prev_clock' = NoClocks
  /\ pending' = NoPending
  /\ UNCHANGED <<inputs, unit, engine, eval_cache, game_idx, analyses, requests,
                 engine_calls, returned, game_log, engine_failed>>

CurrentNode == CurrentGame.nodes[node_idx]

ReplayAtNode ==
  /\ pc = "replay"
  /\ node_idx <= Len(CurrentGame.nodes)
  /\ node_idx # CurrentGame.raise_at

(* chess_analyzer.py 234-251, 292-293: a move of the opponent is pushed *)
ReplayOpponent ==
  /\ ReplayAtNode
  /\ ~IsPlayerMove(player_color, board)
  /\ prev_clock' = ClockStep(prev_clock, WhiteToMove(board), CurrentNode.clk).prev
  /\ board' = Push(board, CurrentNode)
  /\ node_idx' = node_idx + 1
  /\ UNCHANGED <<inputs, unit, pc, engine, eval_cache, game_idx, analyses, player_color,
                 move_number, moves_analysis, pending, requests, engine_calls,
                 returned, game_log, engine_failed>>

\* chess_analyzer.py 295-314, 321-323: analyze_game is left; the batch goes on
LeaveGame(raised) ==
  LET r == GameResult(player_color, CurrentGame.result, moves_analysis, raised) IN
  /\ pc' = "batch"
  /\ analyses' = IF r.kept THEN Append(analyses, r.analysis) ELSE analyses
  /\ game_log' = Append(game_log,
                        LogEntry(IF r.kept THEN "analysis" ELSE "none", raised,
                                 Len(moves_analysis)))
  /\ game_idx' = game_idx + 1
  /\ ReplayVarsIdle

(* chess_analyzer.py 234-258: a move of the player; its clock is read and the *)
(* position before it is evaluated.                                          *)
AnalyzeBefore ==
  /\ ReplayAtNode
  /\ IsPlayerMove(player_color, board)
  /\ \E o \in EngineOutcomes(board) :
       LET a == analyze_position(eval_cache, board, o)
           h == _get_position_hash(board)
           c == ClockStep(prev_clock, WhiteToMove(board), CurrentNode.clk)
       IN /\ engine_calls' = AddCall(engine_calls, h, a.invoked)
          /\ engine_failed' = IF a.failed
                              THEN engine_failed \cup {<<game_idx, node_idx, "before">>}
                              ELSE engine_failed
          /\ eval_cache' = a.cache
          /\ IF a.raised
             THEN /\ LeaveGame(TRUE)
                  /\ UNCHANGED returned
             ELSE /\ returned' = AddReturned(returned, h, a.result)
                  /\ prev_clock' = c.prev
                  /\ pending' = [raw_before |-> a.result[1], best_move |-> a.result[2],
                                 time_spent |-> c.time_spent,
                                 current_clock |-> CurrentNode.clk]
                  /\ pc' = "pushing"
                  /\ UNCHANGED <<game_idx, analyses, player_color, board, node_idx,
                                 move_number, moves_analysis, game_log>>
  /\ UNCHANGED <<inputs, unit, engine, requests>>

(* chess_analyzer.py 260-291: the move is pushed, the position after it is *)
(* evaluated and the MoveAnalysis appended.                                *)
AnalyzeAfter ==
  /\ pc = "pushing"
  /\ LET pushed == Push(board, CurrentNode) IN
     \E o \in EngineOutcomes(pushed) :
       LET a == analyze_position(eval_cache, pushed, o)
           h == _get_position_hash(pushed)
       IN /\ engine_calls' = AddCall(engine_calls, h, a.invoked)
          /\ engine_failed' = IF a.failed
                              THEN engine_failed \cup {<<game_idx, node_idx, "after">>}
                              ELSE engine_failed
          /\ eval_cache' = a.cache
          /\ IF a.raised
             THEN /\ LeaveGame(TRUE)
                  /\ UNCHANGED returned
             ELSE /\ returned' = AddReturned(returned, h, a.result)
                  /\ board' = pushed
                  /\ move_number' = move_number + 1
                  /\ moves_analysis' =
                       Append(moves_analysis,
                              MakeMoveAnalysis(player_color, move_number + 1,
                                               CurrentNode.uci, pending.raw_before,
                                               a.result[1], pending.best_move,
                                               pending.time_spent, pending.current_clock,
                                               pushed))
                  /\ node_idx' = node_idx + 1
                  /\ pending' = NoPending
                  /\ pc' = "replay"
                  /\ UNCHANGED <<game_idx, analyses, player_color, prev_clock, game_log>>
  /\ UNCHANGED <<inputs, unit, engine, requests>>

(* chess_analyzer.py 295-299: the replay loop raises *)
ReplayRaises ==
  /\ pc = "replay"
  /\ node_idx <= Len(CurrentGame.nodes)
  /\ node_idx = CurrentGame.raise_at
  /\ LeaveGame(TRUE)
  /\ UNCHANGED <<inputs, unit, engine, eval_cache, requests, engine_calls, returned,
                 engine_failed>>

(* chess_analyzer.py 301-314: the mainline is exhausted *)
ReplayEnds ==
  /\ pc = "replay"
  /\ node_idx > Len(CurrentGame.nodes)
  /\ LeaveGame(FALSE)
  /\ UNCHANGED <<inputs, unit, engine, eval_cache, requests, engine_calls, returned,
                 engine_failed>>

(* chess_analyzer.py 330, 107-109: the batch is done and the with block left *)
ExitAnalyzer ==
  /\ pc = "batch" /\ game_idx > Len(batch)
  /\ engine' = QuitEngine(engine)
  /\ pc' = "analyzed"
  /\ UNCHANGED <<inputs, unit, eval_cache, game_idx, analyses, replay, requests,
                 engine_calls, returned, game_log, engine_failed>>

----------------------------------------------------------------------------
(* extract_features.  A feature value is held in millionths: ultra_round     *)
(* rounds to six decimals (ROUND_HALF_UP), so every feature is a whole       *)
(* number of millionths.                                                     *)

Micro == 1000000

\* a number of seconds, in centiseconds
Seconds(n) == n * 100

RECURSIVE SumSeq(_)
SumSeq(s) == IF s = <<>> THEN 0 ELSE Head(s) + SumSeq(Tail(s))

RECURSIVE Flatten(_)
Flatten(ss) == IF ss = <<>> THEN <<>> ELSE Head(ss) \o Flatten(Tail(ss))

\* ultra_round(num / den), in millionths; num >= 0, den > 0
ultra_round(num, den) ==
  LET frac == (num % den) * Micro
  IN (num \div den) * Micro + (2 * frac + den) \div (2 * den)

\* a variant of the zero vector of lines 338-346 without the two time features
ZeroFeaturesUntimed ==
  [avg_cp_loss |-> 0, blunder_rate |-> 0, mistake_rate |-> 0, inaccuracy_rate |-> 0,
   brilliant_moves |-> 0, best_moves |-> 0, good_moves |-> 0,
   avg_cp_loss_opening |-> 0, avg_cp_loss_middlegame |-> 0, avg_cp_loss_endgame |-> 0,
   blunder_rate_opening |-> 0, blunder_rate_middlegame |-> 0,
   blunder_rate_endgame |-> 0]

ZeroFeatures ==
  [avg_cp_loss |-> 0, blunder_rate |-> 0, mistake_rate |-> 0, inaccuracy_rate |-> 0,
   brilliant_moves |-> 0, best_moves |-> 0, good_moves |-> 0,
   avg_move_time |-> 0, time_pressure_moves |-> 0,
   avg_cp_loss_opening |-> 0, avg_cp_loss_middlegame |-> 0, avg_cp_loss_endgame |-> 0,
   blunder_rate_opening |-> 0, blunder_rate_middlegame |-> 0,
   blunder_rate_endgame |-> 0]

\* np.mean of the centipawn losses of ms, rounded; 0.0 for no moves
MeanLoss(ms) ==
  IF ms = <<>> THEN 0
  ELSE ultra_round(SumSeq([i \in 1..Len(ms) |-> ms[i].centipawn_loss]), Len(ms))

\* sum(1 for m in ms if m.flag) / len(ms), rounded, for the moves hits among
\* ms; 0.0 for no moves
Rate(hits, ms) ==
  IF ms = <<>> THEN 0 ELSE ultra_round(Len(hits), Len(ms))

\* a variant of line 401: rushed when below either limit
RushedEither(time_spent, time_sum, n) ==
  3 * n * time_spent < time_sum \/ time_spent < Seconds(2)

\* chess_analyzer.py 397, 401: time_spent < avg_time / 3.0 and time_spent < 2.0,
\* avg_time the mean time_sum / n of the n timed moves
Rushed(time_spent, time_sum, n) ==
  3 * n * time_spent < time_sum /\ time_spent < Seconds(2)

extract_features(game_analyses) ==
  LET all_moves == Flatten([i \in 1..Len(game_analyses) |-> game_analyses[i].moves])
      IsOpening(m) == m.phase = "opening"
      IsMiddlegame(m) == m.phase = "middlegame"
      IsEndgame(m) == m.phase # "opening" /\ m.phase # "middlegame"
      IsBlunder(m) == m.is_blunder
      IsMistake(m) == m.is_mistake
      IsInaccuracy(m) == m.is_inaccuracy
      IsBrilliant(m) == m.is_brilliant
      IsBest(m) == m.is_best
      IsGood(m) == m.is_good
      HasTime(m) == m.time_spent # None
      opening_moves == SelectSeq(all_moves, IsOpening)
      middlegame_moves == SelectSeq(all_moves, IsMiddlegame)
      endgame_moves == SelectSeq(all_moves, IsEndgame)
      moves_with_time == SelectSeq(all_moves, HasTime)
      time_sum == SumSeq([i \in 1..Len(moves_with_time) |-> moves_with_time[i].time_spent])
      \* clock_low or rushed
      Pressed(m) ==
        \/ m.clock_remaining # None /\ m.clock_remaining < Seconds(60)
        \/ Rushed(m.time_spent, time_sum, Len(moves_with_time))
  IN IF game_analyses = <<>> \/ all_moves = <<>> THEN ZeroFeatures
     ELSE [avg_cp_loss |-> MeanLoss(all_moves),
           blunder_rate |-> Rate(SelectSeq(all_moves, IsBlunder), all_moves),
           mistake_rate |-> Rate(SelectSeq(all_moves, IsMistake), all_moves),
           inaccuracy_rate |-> Rate(SelectSeq(all_moves, IsInaccuracy), all_moves),
           brilliant_moves |-> Rate(SelectSeq(all_moves, IsBrilliant), all_moves),
           best_moves |-> Rate(SelectSeq(all_moves, IsBest), all_moves),
           good_moves |-> Rate(SelectSeq(all_moves, IsGood), all_moves),
           avg_move_time |->
             IF moves_with_time = <<>> THEN 0
             ELSE ultra_round(time_sum, Seconds(Len(moves_with_time))),
           time_pressure_moves |-> Rate(SelectSeq(moves_with_time, Pressed), moves_with_time),
           avg_cp_loss_opening |-> MeanLoss(opening_moves),
           avg_cp_loss_middlegame |-> MeanLoss(middlegame_moves),
           avg_cp_loss_endgame |-> MeanLoss(endgame_moves),
           blunder_rate_opening |-> Rate(SelectSeq(opening_moves, IsBlunder), opening_moves),
           blunder_rate_middlegame |-> Rate(SelectSeq(middlegame_moves, IsBlunder), middlegame_moves),
           blunder_rate_endgame |-> Rate(SelectSeq(endgame_moves, IsBlunder), endgame_moves)]

----------------------------------------------------------------------------
(* MLInferenceEngine.  A probability and a regression output are held in      *)
(* thousandths, a confidence of a result in hundredths (np.round(., 2) and    *)
(* round(., 2) leave two decimals).                                           *)

Categories ==
  <<"opening", "middlegame", "endgame", "tactical", "positional", "time_management">>

\* ml_inference.py 250: the categories _get_predictions classifies, in order
PredictionCategories == Categories

FEATURE_MAPPINGS(category) ==
  CASE category = "opening" -> <<"avg_cp_loss_opening", "blunder_rate_opening">>
    [] category = "middlegame" ->
         <<"avg_cp_loss_middlegame", "blunder_rate_middlegame", "mistake_rate",
           "best_moves", "good_moves">>
    [] category = "endgame" ->
         <<"avg_cp_loss_endgame", "blunder_rate_endgame", "inaccuracy_rate">>
    [] category = "tactical" ->
         <<"blunder_rate", "brilliant_moves", "best_moves", "mistake_rate",
           "inaccuracy_rate">>
    [] category = "positional" ->
         <<"avg_cp_loss", "blunder_rate", "mistake_rate", "best_moves", "good_moves",
           "inaccuracy_rate", "brilliant_moves">>
    [] category = "time_management" ->
         <<"avg_move_time", "time_pressure_moves", "blunder_rate", "mistake_rate",
           "avg_cp_loss">>

(* A loaded artifact.  kind: "proba" (has predict_proba), "regress" (predict  *)
(* only), "dict" (a plain dict), "opaque" (an object without predict);        *)
(* raises: inference raises; table: the rows the artifact answers with, one   *)
(* picked by the feature vector; float: the regression output is a Python     *)
(* float (numpy.float64), not another numpy scalar.                           *)
Artifact(kind, raises, table, float) ==
  [kind |-> kind, raises |-> raises, table |-> table, float |-> float]

\* the row the artifact answers a feature vector X with
ArtifactRow(model, X) == model.table[(SumSeq(X) % Len(model.table)) + 1]

\* round(num / den) to the nearest whole number, ties to even; num >= 0, den > 0
RoundHalfEven(num, den) ==
  LET q == num \div den
      r2 == 2 * (num % den)
  IN IF r2 > den \/ (r2 = den /\ q % 2 = 1) THEN q + 1 ELSE q

\* a variant of argmax: the last index (0-based) of a largest element
ArgMaxLast(proba) ==
  (CHOOSE i \in 1..Len(proba) :
     /\ \A j \in 1..Len(proba) : proba[j] <= proba[i]
     /\ \A j \in (i + 1)..Len(proba) : proba[j] < proba[i]) - 1

\* int(np.argmax(proba)): the first index (0-based) of a largest element
ArgMax(proba) ==
  (CHOOSE i \in 1..Len(proba) :
     /\ \A j \in 1..Len(proba) : proba[j] <= proba[i]
     /\ \A j \in 1..(i - 1) : proba[j] < proba[i]) - 1

CategoryResult(classification, confidence, numeric_score) ==
  [classification |-> classification, confidence |-> confidence,
   numeric_score |-> numeric_score]

\* a variant of _default_classification: the lowest result
_lowest_classification == CategoryResult("weak", 0, 0)

_default_classification == CategoryResult("average", 50, 50)

\* ml_inference.py 363-371: the final clamps and the result
ClampedResult(classification, confidence, numeric_score) ==
  CategoryResult(classification, RoundHalfEven(Max(0, Min(1000, confidence)), 10),
                 Max(0, Min(100, numeric_score)))

\* a variant of the band scores that rounds to the nearest whole number
BandScoreRounded(base, width, confidence) ==
  base + RoundHalfEven(confidence * width, 1000)

\* ml_inference.py 324, 327, 330: base + int(confidence * width)
BandScore(base, width, confidence) == base + (confidence * width) \div 1000

\* ml_inference.py 313-371: the result from a model whose inference returns
ModelResult(model, X) ==
  IF model.kind = "proba"
  THEN LET proba == ArtifactRow(model, X)
           predicted_class == ArgMax(proba)
           confidence == proba[predicted_class + 1]
       IN IF predicted_class = 0
          THEN ClampedResult("weak", confidence, BandScore(0, 33, confidence))
          ELSE IF predicted_class = 1
          THEN ClampedResult("average", confidence, BandScore(34, 33, confidence))
          ELSE ClampedResult("excellent", confidence, BandScore(68, 32, confidence))
  ELSE IF model.kind = "regress"
  THEN IF ~model.float THEN _default_classification
       ELSE LET prediction == ArtifactRow(model, X)[1]
                normalized == Max(0, Min(1000, prediction))
                numeric_score == normalized \div 10
            IN ClampedResult(IF numeric_score >= 68 THEN "excellent"
                             ELSE IF numeric_score >= 34 THEN "average"
                             ELSE "weak",
                             normalized, numeric_score)
  ELSE _default_classification

\* the model's predict_proba / predict is called and raises
InferenceRaises(model) == model.kind \in {"proba", "regress"} /\ model.raises

(* a variant of _classify_prediction without the try / except of lines 277-377: *)
(* an exception of the model leaves the function                                *)
_classify_prediction_unguarded(category, features_dict, mdls) ==
  LET names == FEATURE_MAPPINGS(category)
      X == [i \in 1..Len(names) |-> features_dict[names[i]]]
  IN IF category \notin DOMAIN mdls
     THEN [result |-> _default_classification, raised |-> FALSE]
     ELSE IF InferenceRaises(mdls[category])
     THEN [result |-> _default_classification, raised |-> TRUE]
     ELSE [result |-> ModelResult(mdls[category], X), raised |-> FALSE]

(* _classify_prediction(category, features_dict); raised: an exception leaves *)
(* the function                                                               *)
_classify_prediction(category, features_dict, mdls) ==
  LET names == FEATURE_MAPPINGS(category)
      X == [i \in 1..Len(names) |-> features_dict[names[i]]]
  IN IF category \notin DOMAIN mdls
     THEN [result |-> _default_classification, raised |-> FALSE]
     ELSE IF InferenceRaises(mdls[category])
     THEN [result |-> _default_classification, raised |-> FALSE]
     ELSE [result |-> ModelResult(mdls[category], X), raised |-> FALSE]

\* a variant of _score_to_result whose numeric_score is the nearest whole number
_score_to_result_rounded(num, den) ==
  CategoryResult(IF num >= 68 * den THEN "excellent"
                 ELSE IF num >= 34 * den THEN "average"
                 ELSE "weak",
                 RoundHalfEven(num, den), RoundHalfEven(num, den))

\* _score_to_result(num / den), the score already clamped to 0..100
_score_to_result(num, den) ==
  CategoryResult(IF num >= 68 * den THEN "excellent"
                 ELSE IF num >= 34 * den THEN "average"
                 ELSE "weak",
                 RoundHalfEven(num, den), num \div den)

\* max(0, min(100, num / den)) as a fraction over den
ClampScore(num, den) == Max(0, Min(100 * den, num))

_classify_prediction_rule_based(category, f) ==
  LET M == Micro
      phase_loss == IF category = "opening" THEN f.avg_cp_loss_opening
                    ELSE IF category = "middlegame" THEN f.avg_cp_loss_middlegame
                    ELSE f.avg_cp_loss_endgame
      phase_blunders == IF category = "opening" THEN f.blunder_rate_opening
                        ELSE IF category = "middlegame" THEN f.blunder_rate_middlegame
                        ELSE f.blunder_rate_endgame
      L == phase_loss
      B == phase_blunders
  IN CASE category = "tactical" ->
            \* (1 - blunder_rate - mistake_rate * 0.5) * 60 + best * 30 + brilliant * 10
            _score_to_result(ClampScore(60 * M - 60 * f.blunder_rate - 30 * f.mistake_rate
                                        + 30 * f.best_moves + 10 * f.brilliant_moves, M), M)
       [] category = "positional" ->
            \* (1 - blunder_rate - mistake_rate * 0.7) * 70 + (best * 0.3 + good * 0.2) * 100
            _score_to_result(ClampScore(70 * M - 70 * f.blunder_rate - 49 * f.mistake_rate
                                        + 30 * f.best_moves + 20 * f.good_moves, M), M)
       [] category = "time_management" ->
            _score_to_result(ClampScore(70 * (M - f.time_pressure_moves)
                                        + 30 * (M - f.blunder_rate), M), M)
       [] OTHER ->
            \* the phase categories; the score is held in twentieths of a millionth
            LET D == 20 * M IN
            IF L < 30 * M /\ 20 * B < M
            THEN _score_to_result(ClampScore(85 * D + 10 * (30 * M - L) - 4000 * B, D), D)
            ELSE IF L < 80 * M /\ 20 * B < 3 * M
            THEN _score_to_result(ClampScore(70 * D + 6 * (80 * M - L) - 2000 * B, D), D)
            ELSE IF L < 150 * M /\ 10 * B < 3 * M
            THEN _score_to_result(ClampScore(50 * D + 4 * (150 * M - L) - 1200 * B, D), D)
            ELSE _score_to_result(ClampScore(25 * D - (3 * (L - 150 * M) + 1000 * B), D), D)


Range(s) == {s[i] : i \in 1..Len(s)}

\* ml_inference.py 242-247: the first loaded artifact is no trained model
UseRuleBased(mdls) ==
  /\ DOMAIN mdls # {}
  /\ LET first == CHOOSE i \in 1..Len(Categories) :
                    /\ Categories[i] \in DOMAIN mdls
                    /\ \A j \in 1..(i - 1) : Categories[j] \notin DOMAIN mdls
     IN mdls[Categories[first]].kind \in {"dict", "opaque"}

(* _get_predictions(features): the prediction map, or raised when a category's *)
(* classification raises                                                       *)
_get_predictions(features, mdls) ==
  LET One(category) ==
        IF UseRuleBased(mdls)
        THEN [result |-> _classify_prediction_rule_based(category, features),
              raised |-> FALSE]
        ELSE _classify_prediction(category, features, mdls)
  IN [raised |-> \E c \in Range(PredictionCategories) : One(c).raised,
      predictions |-> [c \in Range(PredictionCategories) |-> One(c).result]]

category_names(category) ==
  CASE category = "opening" -> "Opening"
    [] category = "middlegame" -> "Middlegame"
    [] category = "endgame" -> "Endgame"
    [] category = "tactical" -> "Tactical play"
    [] category = "positional" -> "Positional understanding"
    [] category = "time_management" -> "Time management"
    [] OTHER -> category

\* the keys of the prediction map in the order they were inserted
PredictionKeys(predictions) ==
  SelectSeq(PredictionCategories, LAMBDA c : c \in DOMAIN predictions)

\* a variant of the strength text: the display name alone
StrengthTextPlain(category, classification) == <<category_names(category), "">>

\* f"{category_names.get(category, category)} - {classification.capitalize()}"
StrengthText(category, classification) ==
  <<category_names(category),
    IF classification = "excellent" THEN "Excellent" ELSE "Good">>

_determine_strengths(predictions) ==
  LET keys == PredictionKeys(predictions)
      strong == SelectSeq(keys, LAMBDA c :
                  predictions[c].classification \in {"excellent", "good"})
      strengths == [i \in 1..Len(strong) |->
                      StrengthText(strong[i], predictions[strong[i]].classification)]
  IN IF strengths # <<>> THEN strengths
     ELSE <<<<"Balanced performance overall", "">>>>

\* a variant of _determine_weaknesses that lists the weak categories only
_determine_weaknesses_weak_only(predictions) ==
  LET keys == PredictionKeys(predictions)
      weak == SelectSeq(keys, LAMBDA c : predictions[c].classification = "weak")
      weaknesses == [i \in 1..Len(weak) |-> category_names(weak[i])]
  IN IF weaknesses # <<>> THEN weaknesses
     ELSE <<"No significant weaknesses - well-rounded player!">>

_determine_weaknesses(predictions) ==
  LET keys == PredictionKeys(predictions)
      weak == SelectSeq(keys, LAMBDA c :
                predictions[c].classification \in {"weak", "average"})
      weaknesses == [i \in 1..Len(weak) |-> category_names(weak[i])]
  IN IF weaknesses # <<>> THEN weaknesses
     ELSE <<"No significant weaknesses - well-rounded player!">>

recommendations(category) ==
  CASE category = "opening" ->
         "Study opening theory and common opening lines for your preferred styles."
    [] category = "middlegame" ->
         "Focus on middlegame planning and piece coordination strategies."
    [] category = "endgame" ->
         "Practice fundamental endgame techniques (king and pawn, piece endgames, etc.)"
    [] category = "tactical" ->
         "Solve tactical puzzles daily to sharpen your tactical vision."
    [] category = "positional" ->
         "Work on positional understanding and pawn structure knowledge."
    [] category = "time_management" ->
         "Manage time better - avoid rushing in critical positions."
    [] OTHER ->
         "Work on improving your identified weak areas to become a stronger player."

_generate_recommendation(weaknesses, predictions) ==
  IF Len(weaknesses) <= 1
  THEN "Maintain your high level of play. Continue analyzing your games and challenging stronger opponents."
  ELSE LET keys == PredictionKeys(predictions)
           \* min(predictions.items(), key=confidence): the first smallest
           weakest == CHOOSE i \in 1..Len(keys) :
                        /\ \A j \in 1..Len(keys) :
                             predictions[keys[i]].confidence
                               <= predictions[keys[j]].confidence
                        /\ \A j \in 1..(i - 1) :
                             predictions[keys[j]].confidence
                               > predictions[keys[i]].confidence
       IN recommendations(keys[weakest])

\* the empty dict {}
EmptyDict == [k \in {} |-> 0]

(* a variant of analyze_games without the check of lines 200-202 *)
analyze_games_unchecked(game_analyses, mdls) ==
  LET features == extract_features(game_analyses)
      p == _get_predictions(features, mdls)
      weaknesses == _determine_weaknesses(p.predictions)
  IN IF p.raised THEN [raised |-> TRUE, raw |-> EmptyDict]
     ELSE [raised |-> FALSE,
           raw |-> [games_analyzed |-> Len(game_analyses),
                    predictions |-> p.predictions,
                    strengths |-> _determine_strengths(p.predictions),
                    weaknesses |-> weaknesses,
                    features |-> features,
                    recommendation |->
                      _generate_recommendation(weaknesses, p.predictions)]]

(* analyze_games, lines 200-222, from the list analyze_multiple_games returned: *)
(* the dict returned, or raised.  user_id and timestamp are left out.          *)
analyze_games(game_analyses, mdls) ==
  IF game_analyses = <<>> THEN [raised |-> FALSE, raw |-> EmptyDict]
  ELSE LET features == extract_features(game_analyses)
           p == _get_predictions(features, mdls)
           weaknesses == _determine_weaknesses(p.predictions)
       IN IF p.raised THEN [raised |-> TRUE, raw |-> EmptyDict]
          ELSE [raised |-> FALSE,
                raw |-> [games_analyzed |-> Len(game_analyses),
                         predictions |-> p.predictions,
                         strengths |-> _determine_strengths(p.predictions),
                         weaknesses |-> weaknesses,
                         features |-> features,
                         recommendation |->
                           _generate_recommendation(weaknesses, p.predictions)]]

\* main.py 76-86: CategoryPrediction accepts the result
ValidPrediction(r) ==
  /\ 0 <= r.confidence /\ r.confidence <= 100
  /\ 0 <= r.numeric_score /\ r.numeric_score <= 100

HttpError(status, detail) == [status |-> status, detail |-> detail]

(* main.py 204-248: analyze_player, from what analyze_games did *)
analyze_player(outcome) ==
  LET raw == outcome.raw
      predictions == IF "predictions" \in DOMAIN raw THEN raw.predictions ELSE EmptyDict
      missing == Range(Categories) \ DOMAIN predictions
  IN IF outcome.raised THEN HttpError(500, "Analysis failed")
     ELSE IF missing # {} THEN HttpError(500, "Missing predictions")
     ELSE IF \E c \in Range(Categories) : ~ValidPrediction(predictions[c])
     THEN HttpError(500, "Response serialisation error")
     ELSE [status |-> 200,
           games_analyzed |-> raw.games_analyzed,
           predictions |-> [c \in Range(Categories) |-> predictions[c]],
           strengths |-> raw.strengths,
           weaknesses |-> raw.weaknesses,
           features |-> raw.features,
           recommendation |-> raw.recommendation]

NoResponse == [status |-> 0]
NoRun == [response |-> NoResponse, analyses |-> <<>>]
\* no other request is being served
NoPeer == [pc |-> "absent"]

(* ml_inference.py 200-222, main.py 210-248: the rest of the request *)
Respond ==
  /\ pc = "analyzed"
  /\ response' = analyze_player(analyze_games(analyses, models))
  /\ pc' = "done"
  /\ UNCHANGED <<inputs, unit, engine, eval_cache, game_idx, analyses, replay, request_no,
                 prev_run, parked, engine_calls, returned, game_log, engine_failed>>


(* ml_inference.py 193-198, main.py 204-208: popen_uci raises in __enter__; *)
(* analyze_games re-raises and the request fails.                           *)
EngineStartFails ==
  /\ pc = "request"
  /\ "fail" \in oracle.start
  /\ response' = analyze_player([raised |-> TRUE, raw |-> EmptyDict])
  /\ pc' = "done"
  /\ UNCHANGED <<inputs, unit, engine, eval_cache, game_idx, analyses, replay, request_no,
                 prev_run, parked, engine_calls, returned, game_log, engine_failed>>

----------------------------------------------------------------------------
(* Inputs: engine answers and artifacts *)

\* an engine that may fail to start and answers any position freely
FreeOracle(games) ==
  [start |-> {"ok", "fail"}, analyse |-> [f \in FensOf(games) |-> FreeOutcomes]]

\* rows of class probabilities (weak, average, excellent), in thousandths
ProbaTable == <<<<700, 200, 100>>, <<125, 750, 125>>, <<50, 85, 865>>, <<400, 400, 200>>>>

TrainedModels ==
  [c \in Range(Categories) |-> Artifact("proba", FALSE, ProbaTable, TRUE)]

----------------------------------------------------------------------------
(* Specification of one request over short games with a free engine *)

\* the state before anything has run, control at `at` with the arguments `arg`
InitAt(at, arg, b, orc, mdls) ==
  /\ player_name = NameBOB
  /\ batch = b
  /\ oracle = orc
  /\ models = mdls
  /\ pc = at
  /\ engine = "none"
  /\ eval_cache = NewEvalCache
  /\ game_idx = 1
  /\ analyses = <<>>
  /\ player_color = "white"
  /\ board = StartBoard
  /\ node_idx = 0
  /\ move_number = 0
  /\ moves_analysis = <<>>
  /\ prev_clock = NoClocks
  /\ pending = NoPending
  /\ response = NoResponse
  /\ request_no = 1
  /\ prev_run = NoRun
  /\ parked = NoPeer
  /\ unit_in = arg
  /\ unit_out = <<>>
  /\ engine_calls = <<>>
  /\ returned = <<>>
  /\ game_log = <<>>
  /\ engine_failed = {}

\* a request arrives at analyze_player
InitRequest(b, orc, mdls) == InitAt("request", <<>>, b, orc, mdls)

Init ==
  \E b \in Batches(ShortGames, MaxGames) \ {<<>>} :
    InitRequest(b, FreeOracle(ShortGames), TrainedModels)

Next ==
  \/ EnterAnalyzer
  \/ EngineStartFails
  \/ GameUnparsed
  \/ GameRaises
  \/ GameParsed
  \/ ReplayOpponent
  \/ AnalyzeBefore
  \/ AnalyzeAfter
  \/ ReplayRaises
  \/ ReplayEnds
  \/ ExitAnalyzer
  \/ Respond

Spec == Init /\ [][Next]_vars

----------------------------------------------------------------------------
(* Inputs: long games, fixed engines *)

\* the first n mainline nodes of a long game
LongNodes(n) == [k \in 1..n |-> Node(10 + (k % 10), None, "a2a3")]

\* the player has white and moves five times
GameLong == Pgn("ok", HeaderBob, HeaderAl, LongNodes(9), 0)
\* the replay raises at the eleventh node, after five records
GameLongAborted == Pgn("ok", HeaderBob, HeaderAl, LongNodes(11), 11)
\* the replay raises at the ninth node, after four records
GameLongAbortedEarly == Pgn("ok", HeaderBob, HeaderAl, LongNodes(9), 9)

LongGames == {GameLong, GameLongAborted, GameLongAbortedEarly, GameWhite, GameAborted,
              GameNoMoves, GameGarbled, GameRaising}

\* engine answers that depend on the position only
SteadyAnswer(f) == CpOutcome(30, "e2e4")
SwingAnswer(f) == IF f[2] = "w" THEN CpOutcome(30, "e2e4") ELSE CpOutcome(-90, "e7e5")
FailingAnswer(f) == IF f[3] = 1 THEN RaiseOutcome ELSE MateOutcome(-2, "")

\* a deterministic engine: it starts or not, and answers a position always alike
FixedOracle(start, answers) ==
  [start |-> {start}, analyse |-> [f \in DOMAIN answers |-> {answers[f]}]]

DetOracles(games) ==
  {FixedOracle("ok", [f \in FensOf(games) |-> SteadyAnswer(f)]),
   FixedOracle("ok", [f \in FensOf(games) |-> SwingAnswer(f)]),
   FixedOracle("ok", [f \in FensOf(games) |-> FailingAnswer(f)]),
   FixedOracle("fail", [f \in FensOf(games) |-> SteadyAnswer(f)])}

\* an engine that is free on the positions of the first move only
LongOracle(games) ==
  [start |-> {"ok", "fail"},
   analyse |-> [f \in FensOf(games) |->
                  IF f[3] = 1 THEN {RaiseOutcome, SteadyAnswer(f)} ELSE {SwingAnswer(f)}]]

----------------------------------------------------------------------------
(* Specification of one request over long and short games *)

InitLong ==
  \E b \in Batches(LongGames, MaxGames) \ {<<>>} :
    InitRequest(b, LongOracle(LongGames), TrainedModels)

SpecLong == InitLong /\ [][Next]_vars

----------------------------------------------------------------------------
(* Specification of repeated requests with the same input and a deterministic *)
(* engine                                                                     *)

(* main.py 173-248 called again with the same request: ml_inference.py 194 *)
(* constructs a new ChessAnalyzer; what the last request produced is kept  *)
(* for comparison.                                                         *)
NewRequest ==
  /\ pc = "done"
  /\ request_no < MaxRequests
  /\ prev_run' = [response |-> response, analyses |-> analyses]
  /\ request_no' = request_no + 1
  /\ response' = NoResponse
  /\ pc' = "request"
  /\ engine' = "none"
  /\ eval_cache' = NewEvalCache
  /\ game_idx' = 1
  /\ analyses' = <<>>
  /\ engine_calls' = <<>>
  /\ returned' = <<>>
  /\ game_log' = <<>>
  /\ engine_failed' = {}
  /\ UNCHANGED <<inputs, unit, replay, parked>>

InitDet ==
  \E b \in Batches(ShortGames, MaxGames) \ {<<>>} :
    \E orc \in DetOracles(ShortGames) : InitRequest(b, orc, TrainedModels)

NextDet ==
  \/ Next
  \/ NewRequest

SpecDet == InitDet /\ [][NextDet]_vars

----------------------------------------------------------------------------
(* Specification of _classify_move applied on its own *)

\* evaluations: the mate sentinels, the neutral 0 and ordinary scores
EvalSamples == {-MATE_SCORE, -60, 0, 30, MATE_SCORE}

InitClassify ==
  \E cp_loss \in 0..MAX_CP_LOSS : \E eval_before \in EvalSamples :
    \E eval_after \in EvalSamples :
      InitAt("classify_move",
             [cp_loss |-> cp_loss, eval_before |-> eval_before,
              eval_after |-> eval_after],
             <<>>, FreeOracle({}), TrainedModels)

ApplyClassifyMove ==
  /\ pc = "classify_move"
  /\ unit_out' = _classify_move(unit_in.cp_loss, unit_in.eval_before, unit_in.eval_after)
  /\ pc' = "classified"
  /\ UNCHANGED <<inputs, unit_in, engine, eval_cache, game_idx, analyses, replay,
                 requests, engine_calls, returned, game_log, engine_failed>>

NextClassify == ApplyClassifyMove

SpecClassify == InitClassify /\ [][NextClassify]_vars

----------------------------------------------------------------------------
(* Specification of _get_predictions applied on its own *)

ArtifactSamples ==
  {Artifact("proba", FALSE, ProbaTable, TRUE),
   Artifact("proba", TRUE, ProbaTable, TRUE),
   Artifact("regress", FALSE, <<<<720>>, <<-50>>, <<1200>>>>, TRUE),
   Artifact("regress", FALSE, <<<<720>>>>, FALSE),
   Artifact("dict", FALSE, <<>>, FALSE)}

\* self.models after _load_models: any of the categories loaded, each with any
\* of the artifacts
ModelSets == UNION {[S -> ArtifactSamples] : S \in SUBSET Range(Categories)}

FeatureSamples ==
  {ZeroFeatures,
   [ZeroFeatures EXCEPT !.avg_cp_loss = 45 * Micro, !.blunder_rate = 250000,
                        !.best_moves = 500000, !.avg_cp_loss_opening = 45 * Micro,
                        !.blunder_rate_opening = 250000]}

InitInfer ==
  \E mdls \in ModelSets : \E features \in FeatureSamples :
    InitAt("get_predictions", features, <<>>, FreeOracle({}), mdls)

ApplyGetPredictions ==
  /\ pc = "get_predictions"
  /\ unit_out' = _get_predictions(unit_in, models)
  /\ pc' = "predicted"
  /\ UNCHANGED <<inputs, unit_in, engine, eval_cache, game_idx, analyses, replay,
                 requests, engine_calls, returned, game_log, engine_failed>>

NextInfer == ApplyGetPredictions

SpecInfer == InitInfer /\ [][NextInfer]_vars

----------------------------------------------------------------------------
(* Properties of the evaluation cache *)

\* C1: within one analyzer lifetime the engine is invoked at most once for each
\* position fingerprint, whether its calls succeed or raise.
C1_EngineAtMostOncePerFingerprint ==
  \A h \in DOMAIN engine_calls : engine_calls[h] <= 1

\* C2: within one analyzer lifetime any two analyze_position calls on positions
\* with the same fingerprint return the same (score, best move) pair.
C2_SameFingerprintSameResult ==
  \A h \in DOMAIN returned : Cardinality(returned[h]) <= 1

----------------------------------------------------------------------------
(* Properties of the move records *)

\* the records made so far in this request
AllRecords ==
  Range(moves_analysis) \cup UNION {Range(analyses[i].moves) : i \in 1..Len(analyses)}

\* C4: every move record of analyze_game has a centipawn loss from 0 to 500,
\* whatever the evaluations before and after the move (mate sentinels, the
\* neutral 0 of a failed engine call).
C4_LossWithinCap ==
  \A m \in AllRecords : 0 <= m.centipawn_loss /\ m.centipawn_loss <= MAX_CP_LOSS

C4_Witness ==
  \E m \in AllRecords :
    /\ m.eval_before = 0 /\ m.best_move = ""
    /\ m.eval_after = -MATE_SCORE
    /\ m.centipawn_loss = MAX_CP_LOSS

QualityFlags == {"is_best", "is_good", "is_inaccuracy", "is_mistake", "is_blunder"}

\* C5: for every capped centipawn loss and every pair of evaluations,
\* _classify_move sets at most one of is_best, is_good, is_inaccuracy,
\* is_mistake, is_blunder.
C5_AtMostOneQuality ==
  pc = "classified" => Cardinality({k \in QualityFlags : unit_out[k]}) <= 1

C5_Witness ==
  /\ pc = "classified"
  /\ unit_in.cp_loss = GOOD_THRESHOLD
  /\ unit_out.is_good /\ unit_out.is_brilliant
  /\ Cardinality({k \in QualityFlags : unit_out[k]}) = 1

----------------------------------------------------------------------------
(* Properties of the batch *)

\* the games of the batch that analyze_game has finished with a GameAnalysis
Yielded == {i \in 1..Len(game_log) : game_log[i].how = "analysis"}

\* C6: a game that cannot be parsed or whose analysis raises is skipped and the
\* batch goes on: once the batch is done every game has been processed, the
\* analyses are those of the games that yielded one, and games_analyzed in
\* the response is their number.
C6_FailedGamesSkipped ==
  (pc \in {"analyzed", "done"} /\ engine # "none") =>
    /\ Len(game_log) = Len(batch)
    /\ \A i \in 1..Len(batch) :
         batch[i].kind # "ok" => game_log[i].how \in {"none", "raised"}
    /\ Len(analyses) = Cardinality(Yielded)
    /\ (pc = "done" /\ Yielded # {}) =>
         (response.status = 200 /\ response.games_analyzed = Cardinality(Yielded))

C6_Witness ==
  /\ pc = "done" /\ Len(batch) = 2 /\ Len(game_log) = 2
  /\ batch[1].kind = "raises"
  /\ game_log[1].how = "raised" /\ game_log[2].how = "analysis"
  /\ response.status = 200 /\ response.games_analyzed = 1

\* C7: when no game of the batch yields a GameAnalysis the request fails and
\* the caller gets no predictions and no features.
C7_EmptyBatchFails ==
  (pc = "done" /\ analyses = <<>>) =>
    /\ response.status >= 400
    /\ "predictions" \notin DOMAIN response
    /\ "features" \notin DOMAIN response

C7_Witness ==
  /\ pc = "done" /\ engine = "quit"
  /\ Len(game_log) = 2 /\ Yielded = {}
  /\ response.status = 500

\* C8 as stated: a game with fewer than 5 analysed moves of the player is
\* discarded, so every GameAnalysis of a batch has at least 5 move records.
C8_EveryAnalysisHasFiveRecords ==
  /\ \A i \in 1..Len(game_log) :
       game_log[i].records < MIN_MOVES_ON_ERROR => game_log[i].how # "analysis"
  /\ \A i \in 1..Len(analyses) : Len(analyses[i].moves) >= MIN_MOVES_ON_ERROR

\* C8: a game whose replay raised is discarded when it has fewer than 5 move
\* records; a game replayed to its end is discarded only when it has none.  So
\* every GameAnalysis has at least one record, and at least 5 if the replay
\* raised.
C8_ShortGameDiscardedWhenReplayRaised ==
  /\ \A i \in 1..Len(game_log) :
       LET e == game_log[i] IN
       batch[i].kind = "ok" =>
         (e.how = "analysis" <=>
            (e.records >= 1 /\ (e.raised => e.records >= MIN_MOVES_ON_ERROR)))
  /\ \A i \in 1..Len(analyses) : Len(analyses[i].moves) >= 1

C8_Witness ==
  \E i, j \in 1..Len(game_log) :
    /\ game_log[i].raised /\ game_log[i].records = MIN_MOVES_ON_ERROR - 1
    /\ game_log[i].how = "none"
    /\ ~game_log[j].raised /\ game_log[j].records \in 1..(MIN_MOVES_ON_ERROR - 1)
    /\ game_log[j].how = "analysis"

----------------------------------------------------------------------------
(* Properties of a failing engine call *)

\* the board of a game after its first k plies
BoardAt(game, k) ==
  IF k = 0 THEN StartBoard ELSE [layout |-> game.nodes[k].layout, ply |-> k]

\* the number of moves of the player among the first n plies of a game
PlayerPlies(color, n) ==
  Cardinality({k \in 1..n : (k % 2 = 1) <=> (color = "white")})

\* C9: when the engine call for a position fails, analyze_position returns the
\* neutral evaluation (0, no best move) and does not raise; the move is still
\* recorded and the replay goes on with the remaining plies.
C9_EngineFailureIsNeutral ==
  /\ \A f \in engine_failed :
       LET h == _get_position_hash(
                  BoardAt(batch[f[1]], IF f[3] = "before" THEN f[2] - 1 ELSE f[2]))
       IN h \in DOMAIN returned /\ <<0, "">> \in returned[h]
  /\ \A i \in 1..Len(game_log) :
       /\ game_log[i].raised =>
            (batch[i].kind = "raises" \/ batch[i].raise_at > 0)
       /\ (batch[i].kind = "ok" /\ batch[i].raise_at = 0) =>
            game_log[i].records =
              PlayerPlies(PlayerColor(player_name, batch[i]), Len(batch[i].nodes))
  /\ pc \in {"replay", "pushing"} =>
       /\ Len(moves_analysis) = PlayerPlies(player_color, node_idx - 1)
       /\ \A n \in 1..(node_idx - 1) :
            LET m == moves_analysis[PlayerPlies(player_color, n)] IN
            /\ <<game_idx, n, "before">> \in engine_failed =>
                 (m.eval_before = 0 /\ m.best_move = "")
            /\ <<game_idx, n, "after">> \in engine_failed => m.eval_after = 0
       /\ (pc = "pushing" /\ <<game_idx, node_idx, "before">> \in engine_failed) =>
            (pending.raw_before = 0 /\ pending.best_move = "")

C9_Witness ==
  /\ pc = "replay" /\ node_idx = 4
  /\ <<game_idx, 1, "after">> \in engine_failed
  /\ Len(moves_analysis) = 2
  /\ moves_analysis[1].eval_after = 0
  /\ moves_analysis[2].eval_after # 0

----------------------------------------------------------------------------
(* Properties of the predictions *)

\* C10: the prediction map of _get_predictions has exactly the six keys
\* opening, middlegame, endgame, tactical, positional, time_management, however
\* many of the models are missing or raise.
C10_ExactlySixCategories ==
  pc = "predicted" =>
    /\ ~unit_out.raised
    /\ DOMAIN unit_out.predictions =
         {"opening", "middlegame", "endgame", "tactical", "positional",
          "time_management"}

C10_Witness ==
  /\ pc = "predicted"
  /\ "opening" \notin DOMAIN models
  /\ "middlegame" \in DOMAIN models /\ models["middlegame"].kind = "proba"
  /\ ~models["middlegame"].raises
  /\ "endgame" \in DOMAIN models /\ InferenceRaises(models["endgame"])
  /\ unit_out.predictions["endgame"] = _default_classification
  /\ unit_out.predictions["middlegame"] # _default_classification

\* ml_inference.py 289-361: classifying the category cannot use a model: none
\* is loaded, it has no predict, its inference raises, or its prediction is of
\* an unexpected type
CategoryFails(category, mdls) ==
  \/ category \notin DOMAIN mdls
  \/ mdls[category].kind \notin {"proba", "regress"}
  \/ InferenceRaises(mdls[category])
  \/ (mdls[category].kind = "regress" /\ ~mdls[category].float)

----------------------------------------------------------------------------
(* Specification of one request with every exit of the with block, and the  *)
(* request always going on to its end                                        *)

(* chess_analyzer.py 319-329, 107-109, ml_inference.py 196-198, main.py       *)
(* 206-208: an exception leaves analyze_multiple_games (one raised in the     *)
(* handler of lines 326-329, which nothing catches); __exit__ runs,           *)
(* analyze_games raises again and the request fails.                          *)
BatchRaises ==
  /\ pc = "batch" /\ game_idx <= Len(batch)
  /\ engine' = QuitEngine(engine)
  /\ response' = analyze_player([raised |-> TRUE, raw |-> EmptyDict])
  /\ pc' = "done"
  /\ UNCHANGED <<inputs, unit, eval_cache, game_idx, analyses, replay, request_no,
                 prev_run, parked, engine_calls, returned, game_log, engine_failed>>

NextLive ==
  \/ Next
  \/ BatchRaises

\* ml_inference.py 194-195: the steps inside the with block
WithBlock ==
  \/ GameUnparsed
  \/ GameRaises
  \/ GameParsed
  \/ ReplayOpponent
  \/ AnalyzeBefore
  \/ AnalyzeAfter
  \/ ReplayRaises
  \/ ReplayEnds
  \/ ExitAnalyzer
  \/ BatchRaises

\* the with block is sequential code whose calls return or raise: it goes on
\* while it has a step to take
SpecLive == Init /\ [][NextLive]_vars /\ WF_vars(WithBlock)

\* C12: an engine process started for a request is eventually quit, on every
\* exit of the request: all games analysed, games that fail to parse, an
\* exception leaving the batch.
C12_EngineEventuallyQuit == (engine = "running") ~> (engine = "quit")

C12_Witness ==
  /\ pc = "done" /\ engine = "quit"
  /\ response.status = 500
  /\ Len(batch) = 2 /\ Len(game_log) = 1 /\ game_log[1].how = "none"

----------------------------------------------------------------------------
(* Specification of one request over games with clock comments *)

\* _parse_clk on a comment [%clk h:mm:ss.cc]: h * 3600 + m * 60 + s, here in
\* centiseconds
_parse_clk(h, m, cs) == Seconds(h * 3600 + m * 60) + cs

\* clocks 4:58.23, 4:57.80, none, 4:59.00 for white; 5:00.00, 4:50.00, none
\* for black
ClockedNodes ==
  <<Node(11, _parse_clk(0, 4, 5823), "e2e4"), Node(12, _parse_clk(0, 5, 0), "e7e5"),
    Node(13, _parse_clk(0, 4, 5780), "g1f3"), Node(14, _parse_clk(0, 4, 5000), "b8c6"),
    Node(15, None, "f1c4"), Node(16, None, "f8c5"),
    Node(17, _parse_clk(0, 4, 5900), "c2c3")>>

\* the player has white
GameClocked == Pgn("ok", HeaderBob, HeaderAl, ClockedNodes, 0)
\* the player has black
GameClockedBlack == Pgn("ok", HeaderAl, HeaderBob, ClockedNodes, 0)

ClockGames == {GameClocked, GameClockedBlack, GameBlack, GameAborted, GameGarbled,
               GameRaising}

InitClock ==
  \E b \in Batches(ClockGames, MaxGames) \ {<<>>} :
    InitRequest(b, LongOracle(ClockGames), TrainedModels)

SpecClock == InitClock /\ [][Next]_vars

\* the latest clock among the plies 1..n of a game that one side played
LatestClock(game, n, white) ==
  LET clocked == {k \in 1..n : ((k % 2 = 1) <=> white) /\ game.nodes[k].clk # None}
  IN IF clocked = {} THEN None
     ELSE game.nodes[CHOOSE k \in clocked : \A j \in clocked : j <= k].clk

\* C13: the time spent on a ply that carries a clock is max(0, previous clock
\* of the same side - its clock), the previous clock being the latest clock of
\* an earlier ply of that side (no time when there is none, or no clock); the
\* two sides' previous clocks are kept apart; a time spent is never negative.
C13_TimeSpentPerSide ==
  pc \in {"replay", "pushing"} =>
    LET game == CurrentGame
        done == IF pc = "pushing" THEN node_idx ELSE node_idx - 1
    IN /\ prev_clock.white = LatestClock(game, done, TRUE)
       /\ prev_clock.black = LatestClock(game, done, FALSE)
       /\ \A i \in 1..Len(moves_analysis) :
            LET n == IF player_color = "white" THEN 2 * i - 1 ELSE 2 * i
                cur == game.nodes[n].clk
                before == LatestClock(game, n - 1, player_color = "white")
                m == moves_analysis[i]
            IN /\ m.clock_remaining = cur
               /\ m.time_spent = IF cur = None \/ before = None THEN None
                                 ELSE IF before >= cur THEN before - cur ELSE 0
               /\ (m.time_spent = None \/ m.time_spent >= 0)

C13_Witness ==
  /\ pc = "replay" /\ player_color = "white" /\ Len(moves_analysis) = 4
  /\ moves_analysis[1].time_spent = None
  /\ moves_analysis[2].time_spent = 43
  /\ moves_analysis[3].time_spent = None
  /\ moves_analysis[4].time_spent = 0 /\ moves_analysis[4].clock_remaining = 29900
  /\ prev_clock = [white |-> 29900, black |-> 29000]

----------------------------------------------------------------------------
(* Specification of extract_features applied on its own *)

\* GameAnalysis objects: of either colour, with no move, with a best opening
\* move, a blunder with a clock, a middlegame inaccuracy on a low clock, a
\* brilliant endgame move, a quick move next to a slow one, a move of less than
\* two seconds
SampleAnalyses ==
  LET rA == MakeMoveAnalysis("white", 1, "e2e4", 30, 30, "e2e4", None, None,
                             [layout |-> 1, ply |-> 1])
      rB == MakeMoveAnalysis("white", 2, "g1f3", 30, -MATE_SCORE, "g1f3", 500, 29500,
                             [layout |-> 3, ply |-> 3])
      rC == MakeMoveAnalysis("white", 14, "a2a3", 0, -60, "", 100, 4000,
                             [layout |-> 14, ply |-> 27])
      rD == MakeMoveAnalysis("white", 30, "a2a3", 30, 90, "", 43, 29780,
                             [layout |-> 20, ply |-> 59])
      rE == MakeMoveAnalysis("white", 3, "a2a3", 30, 30, "", 300, 20000,
                             [layout |-> 11, ply |-> 5])
      rF == MakeMoveAnalysis("white", 4, "a2a3", 30, 30, "", 3000, 25000,
                             [layout |-> 12, ply |-> 7])
      rG == MakeMoveAnalysis("white", 5, "a2a3", 30, 30, "", 150, 20000,
                             [layout |-> 13, ply |-> 9])
  IN {[player_color |-> color, result |-> "1-0", moves |-> moves,
       total_moves |-> Len(moves)] :
        color \in {"white", "black"},
        moves \in {<<>>, <<rA>>, <<rA, rB>>, <<rC>>, <<rB, rC, rD>>, <<rE, rF>>, <<rG>>}}

InitFeatures ==
  \E game_analyses \in Batches(SampleAnalyses, MaxGames) :
    InitAt("extract_features", game_analyses, <<>>, FreeOracle({}), TrainedModels)

ApplyExtractFeatures ==
  /\ pc = "extract_features"
  /\ unit_out' = extract_features(unit_in)
  /\ pc' = "extracted"
  /\ UNCHANGED <<inputs, unit_in, engine, eval_cache, game_idx, analyses, replay,
                 requests, engine_calls, returned, game_log, engine_failed>>

SpecFeatures == InitFeatures /\ [][ApplyExtractFeatures]_vars

\* C14: extract_features on an empty list returns the 15 fixed feature names,
\* all 0.0, and returns the same vector for a list of games that have no move
\* between them.
C14_ZeroVectorWithoutMoves ==
  pc = "extracted" =>
    /\ DOMAIN unit_out =
         {"avg_cp_loss", "blunder_rate", "mistake_rate", "inaccuracy_rate",
          "brilliant_moves", "best_moves", "good_moves", "avg_move_time",
          "time_pressure_moves", "avg_cp_loss_opening", "avg_cp_loss_middlegame",
          "avg_cp_loss_endgame", "blunder_rate_opening", "blunder_rate_middlegame",
          "blunder_rate_endgame"}
    /\ (\A i \in 1..Len(unit_in) : unit_in[i].moves = <<>>) =>
         \A k \in DOMAIN unit_out : unit_out[k] = 0

C14_Witness ==
  /\ pc = "extracted"
  /\ Len(unit_in) = 2 /\ unit_in[1].moves = <<>> /\ unit_in[2].moves = <<>>
  /\ Cardinality(DOMAIN unit_out) = 15
  /\ \A k \in DOMAIN unit_out : unit_out[k] = 0

----------------------------------------------------------------------------
(* Specification of _classify_prediction applied on its own to a classifier *)
(* that gives one class every confidence from 0 to 1                        *)

\* the classifier of the opening answers with the probability confidence for
\* the class label and 0 for the other two classes
InitScore ==
  \E label \in 0..2 : \E confidence \in (IF label = 0 THEN 0 ELSE 1)..1000 :
    InitAt("classify_prediction",
           [category |-> "opening", features_dict |-> ZeroFeatures, label |-> label,
            confidence |-> confidence],
           <<>>, FreeOracle({}),
           [c \in {"opening"} |->
              Artifact("proba", FALSE,
                       <<[i \in 1..3 |-> IF i = label + 1 THEN confidence ELSE 0]>>,
                       TRUE)])

ApplyClassifyPrediction ==
  /\ pc = "classify_prediction"
  /\ unit_out' = _classify_prediction(unit_in.category, unit_in.features_dict, models).result
  /\ pc' = "classified_prediction"
  /\ UNCHANGED <<inputs, unit_in, engine, eval_cache, game_idx, analyses, replay,
                 requests, engine_calls, returned, game_log, engine_failed>>

SpecScore == InitScore /\ [][ApplyClassifyPrediction]_vars

\* C15 as stated: for a classifier with class probabilities numeric_score is
\* round(confidence * 33) for weak, 34 + round(confidence * 33) for average,
\* 68 + round(confidence * 32) for excellent, within the band of the label.
C15_BandScoreRounds ==
  pc = "classified_prediction" =>
    LET c == unit_in.confidence
        base == IF unit_in.label = 0 THEN 0 ELSE IF unit_in.label = 1 THEN 34 ELSE 68
        width == IF unit_in.label = 2 THEN 32 ELSE 33
        n == unit_out.numeric_score - base
    IN /\ 0 <= n /\ n <= width
       /\ 2 * Max(c * width - 1000 * n, 1000 * n - c * width) <= 1000

\* C15: for a classifier with class probabilities numeric_score is the whole
\* part of confidence * 33 for weak, 34 + the whole part of confidence * 33
\* for average, 68 + the whole part of confidence * 32 for excellent (int()
\* truncates), within the band [0,33], [34,67], [68,100] of the label, for
\* every confidence from 0 to 1.
C15_BandScoreTruncates ==
  pc = "classified_prediction" =>
    LET c == unit_in.confidence
        base == IF unit_in.label = 0 THEN 0 ELSE IF unit_in.label = 1 THEN 34 ELSE 68
        width == IF unit_in.label = 2 THEN 32 ELSE 33
        n == unit_out.numeric_score - base
    IN /\ unit_out.classification =
            (IF unit_in.label = 0 THEN "weak"
             ELSE IF unit_in.label = 1 THEN "average" ELSE "excellent")
       /\ 0 <= n /\ n <= width
       /\ 1000 * n <= c * width /\ c * width < 1000 * (n + 1)

C15_Witness ==
  /\ pc = "classified_prediction"
  /\ unit_in.label = 1 /\ unit_in.confidence = 750
  /\ unit_out = [classification |-> "average", confidence |-> 75, numeric_score |-> 58]

----------------------------------------------------------------------------
(* Specification of the strengths, weaknesses and recommendation of a *)
(* prediction map, on their own                                       *)

\* the prediction map has for each category one of: weak at confidence 0.70,
\* average at 0.40, excellent at 0.87, excellent at 0.35
InitSynth ==
  \E predictions \in
       [Range(Categories) ->
          {CategoryResult("weak", 70, 23), CategoryResult("average", 40, 47),
           CategoryResult("excellent", 87, 95), CategoryResult("excellent", 35, 79)}] :
    InitAt("synthesize", predictions, <<>>, FreeOracle({}), TrainedModels)

\* ml_inference.py 208-221
ApplySynthesize ==
  /\ pc = "synthesize"
  /\ unit_out' = [strengths |-> _determine_strengths(unit_in),
                  weaknesses |-> _determine_weaknesses(unit_in),
                  recommendation |->
                    _generate_recommendation(_determine_weaknesses(unit_in), unit_in)]
  /\ pc' = "synthesized"
  /\ UNCHANGED <<inputs, unit_in, engine, eval_cache, game_idx, analyses, replay,
                 requests, engine_calls, returned, game_log, engine_failed>>

SpecSynth == InitSynth /\ [][ApplySynthesize]_vars

\* C16 as stated: the weaknesses are exactly the display names of the
\* categories classified weak, in category order, and the one fallback
\* sentence when no category is weak.
C16_WeaknessesAreWeakCategories ==
  pc = "synthesized" =>
    LET weak == SelectSeq(Categories, LAMBDA c : unit_in[c].classification = "weak")
    IN unit_out.weaknesses =
         IF weak = <<>> THEN <<"No significant weaknesses - well-rounded player!">>
         ELSE [i \in 1..Len(weak) |-> category_names(weak[i])]

\* C16: the weaknesses are exactly the display names of the categories
\* classified weak or average, in category order, and the one fallback
\* sentence when every category is excellent.
C16_WeaknessesAreWeakOrAverage ==
  pc = "synthesized" =>
    LET low == SelectSeq(Categories,
                         LAMBDA c : unit_in[c].classification \in {"weak", "average"})
    IN unit_out.weaknesses =
         IF low = <<>> THEN <<"No significant weaknesses - well-rounded player!">>
         ELSE [i \in 1..Len(low) |-> category_names(low[i])]

C16_Witness ==
  /\ pc = "synthesized"
  /\ unit_in["opening"].classification = "excellent"
  /\ unit_in["middlegame"].classification = "average"
  /\ unit_in["endgame"].classification = "weak"
  /\ unit_in["tactical"].classification = "excellent"
  /\ unit_in["positional"].classification = "excellent"
  /\ unit_in["time_management"].classification = "average"
  /\ unit_out.weaknesses = <<"Middlegame", "Endgame", "Time management">>

\* C17 as stated: the strengths are exactly the display names of the
\* categories classified excellent, in category order, and the one fallback
\* sentence when no category is excellent.
C17_StrengthsAreDisplayNames ==
  pc = "synthesized" =>
    LET strong == SelectSeq(Categories,
                            LAMBDA c : unit_in[c].classification = "excellent")
    IN unit_out.strengths =
         IF strong = <<>> THEN <<<<"Balanced performance overall", "">>>>
         ELSE [i \in 1..Len(strong) |-> <<category_names(strong[i]), "">>]

\* C17: the strengths are, for the categories classified excellent in category
\* order, the display name followed by " - " and the capitalised
\* classification ("Opening - Excellent"), and the one fallback sentence when
\* no category is excellent.
C17_StrengthsAreNamesWithClassification ==
  pc = "synthesized" =>
    LET strong == SelectSeq(Categories,
                            LAMBDA c : unit_in[c].classification = "excellent")
    IN unit_out.strengths =
         IF strong = <<>> THEN <<<<"Balanced performance overall", "">>>>
         ELSE [i \in 1..Len(strong) |-> <<category_names(strong[i]), "Excellent">>]

C17_Witness ==
  /\ pc = "synthesized"
  /\ unit_in["opening"].classification = "excellent"
  /\ unit_in["tactical"].classification = "excellent"
  /\ \A c \in {"middlegame", "endgame", "positional", "time_management"} :
       unit_in[c].classification # "excellent"
  /\ unit_out.strengths = <<<<"Opening", "Excellent">>, <<"Tactical play", "Excellent">>>>

\* C18: the recommendation is the advice of the category with the lowest
\* numeric_score among the categories not classified excellent, ties going to
\* the category name that sorts first; the sentence for a player without
\* weakness is returned only when every category is excellent.
C18_AdviceForLowestScore ==
  pc = "synthesized" =>
    LET byName == <<"endgame", "middlegame", "opening", "positional", "tactical",
                    "time_management">>
        Low(i) == unit_in[byName[i]].classification # "excellent"
        Score(i) == unit_in[byName[i]].numeric_score
    IN IF \A i \in 1..6 : ~Low(i)
       THEN unit_out.recommendation =
              "Maintain your high level of play. Continue analyzing your games and challenging stronger opponents."
       ELSE LET i == CHOOSE i \in 1..6 :
                       /\ Low(i)
                       /\ \A j \in 1..6 :
                            Low(j) => (Score(j) > Score(i) \/ (Score(j) = Score(i) /\ j >= i))
            IN unit_out.recommendation = recommendations(byName[i])

----------------------------------------------------------------------------
(* Properties of the cache and the replay over time *)

\* C19: a result stored in the evaluation cache is never removed or
\* overwritten while the analyzer lives: every step keeps each stored pair,
\* from one game of the batch to the next, and a position whose result is
\* stored is served from the cache, without an engine call.
C19_CacheOnlyGrows ==
  [][\A h \in DOMAIN eval_cache :
       /\ h \in DOMAIN eval_cache' /\ eval_cache'[h] = eval_cache[h]
       /\ h \in DOMAIN engine_calls' /\ engine_calls'[h] = engine_calls[h]
       /\ returned'[h] \ returned[h] \subseteq {eval_cache[h]}]_vars

C19_Witness ==
  LET h == _get_position_hash(StartBoard) IN
  /\ pc = "pushing" /\ game_idx = 2 /\ node_idx = 1 /\ player_color = "white"
  /\ PlayerColor(player_name, batch[1]) = "white" /\ game_log[1].records >= 1
  /\ h \in DOMAIN eval_cache /\ engine_calls[h] = 1
  /\ pending.raw_before = eval_cache[h][1]
  /\ Cardinality(DOMAIN eval_cache) >= 2

\* C20: for a ply of the player the replay evaluates the position before the
\* move through the cache, then pushes the move, evaluates the position after
\* it through the cache and appends one record; for a ply of the opponent it
\* only pushes the move: no engine call, no change of the cache, no record.
\* So the records are as many as the plies of the player replayed.
C20_ReplayOrder ==
  [][LET sign == IF player_color = "black" THEN -1 ELSE 1 IN
     /\ (pc = "replay" /\ pc' = "pushing") =>
          /\ (node_idx % 2 = 1) <=> (player_color = "white")
          /\ board' = board /\ moves_analysis' = moves_analysis
          /\ _get_position_hash(board) \in DOMAIN returned'
          /\ <<pending'.raw_before, pending'.best_move>>
               \in returned'[_get_position_hash(board)]
     /\ (pc = "pushing" /\ pc' = "replay") =>
          /\ board' = Push(board, CurrentNode)
          /\ Len(moves_analysis') = Len(moves_analysis) + 1
          /\ SubSeq(moves_analysis', 1, Len(moves_analysis)) = moves_analysis
          /\ LET m == moves_analysis'[Len(moves_analysis')] IN
             /\ m.eval_before = sign * pending.raw_before
             /\ m.best_move = pending.best_move
             /\ \E r \in returned'[_get_position_hash(board')] :
                  r[1] = sign * m.eval_after
     /\ (pc = "replay" /\ pc' = "replay") =>
          /\ (node_idx % 2 = 1) <=> (player_color # "white")
          /\ board' = Push(board, CurrentNode)
          /\ UNCHANGED <<eval_cache, engine_calls, returned, moves_analysis>>
     /\ pc' = "replay" =>
          Len(moves_analysis') = PlayerPlies(player_color', node_idx' - 1)]_vars

C20_Witness ==
  /\ pc = "replay" /\ game_idx = 1 /\ player_color = "black" /\ node_idx = 3
  /\ Len(moves_analysis) = 1
  /\ _get_position_hash(StartBoard) \notin DOMAIN returned
  /\ DOMAIN returned = DOMAIN engine_calls /\ Cardinality(DOMAIN returned) = 2

----------------------------------------------------------------------------
(* Specification of two requests served concurrently.  Each request runs      *)
(* analyze_player -> analyze_games on its own stack: the variables hold the   *)
(* request that is running, parked the one that is not, and a switch between  *)
(* the two may come between any two steps.                                    *)

\* one game per request: the same opening seen by either colour, a replay that
\* raises, a game that does not parse, a game that raises
ConcBatches == {<<GameWhite>>, <<GameBlack>>, <<GameAborted>>, <<GameEmpty>>, <<GameRaising>>}

\* a variant in which eval_cache is one dict for all analyzers (an attribute of
\* the class): the request resumed works on the dict the other one left
ResumedCacheOfClass(ctx, left) == left

\* chess_analyzer.py 81: eval_cache is an attribute of the analyzer, and the
\* analyzer a local of analyze_games (ml_inference.py 194): the request resumed
\* works on its own dict
ResumedCache(ctx, left) == ctx.eval_cache

\* the locals of the request that is running
RunningRequest ==
  [player_name |-> player_name, batch |-> batch, pc |-> pc, engine |-> engine,
   eval_cache |-> eval_cache, game_idx |-> game_idx, analyses |-> analyses,
   player_color |-> player_color, board |-> board, node_idx |-> node_idx,
   move_number |-> move_number, moves_analysis |-> moves_analysis,
   prev_clock |-> prev_clock, pending |-> pending, response |-> response,
   request_no |-> request_no, engine_calls |-> engine_calls, returned |-> returned,
   game_log |-> game_log, engine_failed |-> engine_failed]

\* main.py 173-174: a second request arrives while the first is being served
RequestArrives ==
  /\ parked = NoPeer
  /\ pc # "done"
  /\ \E b \in ConcBatches :
       parked' = [player_name |-> NameBOB, batch |-> b, pc |-> "request",
                  engine |-> "none", eval_cache |-> NewEvalCache, game_idx |-> 1,
                  analyses |-> <<>>, player_color |-> "white", board |-> StartBoard,
                  node_idx |-> 0, move_number |-> 0, moves_analysis |-> <<>>,
                  prev_clock |-> NoClocks, pending |-> NoPending,
                  response |-> NoResponse, request_no |-> request_no + 1,
                  engine_calls |-> <<>>, returned |-> <<>>, game_log |-> <<>>,
                  engine_failed |-> {}]
  /\ UNCHANGED <<inputs, unit, pc, engine, eval_cache, game_idx, analyses, replay,
                 response, request_no, prev_run, engine_calls, returned, game_log,
                 engine_failed>>

\* the scheduler takes the running request off and resumes the other
Switch ==
  /\ parked # NoPeer
  /\ parked' = RunningRequest
  /\ player_name' = parked.player_name
  /\ batch' = parked.batch
  /\ pc' = parked.pc
  /\ engine' = parked.engine
  /\ eval_cache' = ResumedCache(parked, eval_cache)
  /\ game_idx' = parked.game_idx
  /\ analyses' = parked.analyses
  /\ player_color' = parked.player_color
  /\ board' = parked.board
  /\ node_idx' = parked.node_idx
  /\ move_number' = parked.move_number
  /\ moves_analysis' = parked.moves_analysis
  /\ prev_clock' = parked.prev_clock
  /\ pending' = parked.pending
  /\ response' = parked.response
  /\ request_no' = parked.request_no
  /\ engine_calls' = parked.engine_calls
  /\ returned' = parked.returned
  /\ game_log' = parked.game_log
  /\ engine_failed' = parked.engine_failed
  /\ UNCHANGED <<oracle, models, prev_run, unit>>

InitConc ==
  \E b \in ConcBatches : InitRequest(b, FreeOracle(ShortGames), TrainedModels)

NextConc ==
  \/ Next
  \/ RequestArrives
  \/ Switch

SpecConc == InitConc /\ [][NextConc]_vars

\* the entries of a request's cache are results of that request's own engine
\* calls, returned to that request
OwnEntries(r) ==
  \A h \in DOMAIN r.eval_cache :
    /\ h \in DOMAIN r.engine_calls
    /\ h \in DOMAIN r.returned /\ r.eval_cache[h] \in r.returned[h]

\* C21: each request has its own analyzer, whose cache starts empty, and its
\* own engine: under any interleaving of two requests every entry of a
\* request's cache was written by that request, so that no request reads or
\* writes an entry of the other, and a request runs on the engine it started.
C21_CachesNotShared ==
  /\ OwnEntries(RunningRequest)
  /\ parked # NoPeer => OwnEntries(parked)
  /\ (pc = "request" /\ engine = "none") => eval_cache = NewEvalCache
  /\ pc \in {"batch", "replay", "pushing"} => engine = "running"

C21_Witness ==
  LET h == _get_position_hash(StartBoard) IN
  /\ parked # NoPeer /\ request_no = 2
  /\ parked.batch = <<GameWhite>> /\ batch = <<GameWhite>>
  /\ parked.pc = "pushing" /\ pc = "pushing"
  /\ h \in DOMAIN parked.eval_cache /\ h \in DOMAIN eval_cache
  /\ parked.eval_cache[h] # eval_cache[h]
  /\ engine_calls[h] = 1 /\ parked.engine_calls[h] = 1

----------------------------------------------------------------------------
(* Properties of the move tiers *)

\* C22: for every capped loss from 0 to 500 _classify_move gives best iff the
\* loss is at most 10, good iff it is above 10 and at most 25, inaccuracy iff
\* it is at least 50 and below 100, mistake iff at least 100 and below 200,
\* blunder iff at least 200; a loss strictly between 25 and 50 has none of
\* the five tiers.
C22_TiersByLoss ==
  pc = "classified" =>
    LET loss == unit_in.cp_loss IN
    /\ unit_out.is_best <=> loss <= 10
    /\ unit_out.is_good <=> (10 < loss /\ loss <= 25)
    /\ unit_out.is_inaccuracy <=> (50 <= loss /\ loss < 100)
    /\ unit_out.is_mistake <=> (100 <= loss /\ loss < 200)
    /\ unit_out.is_blunder <=> loss >= 200
    /\ (25 < loss /\ loss < 50) =>
         /\ ~unit_out.is_best /\ ~unit_out.is_good /\ ~unit_out.is_inaccuracy
         /\ ~unit_out.is_mistake /\ ~unit_out.is_blunder

C22_Witness ==
  /\ pc = "classified"
  /\ unit_in.cp_loss = 37
  /\ ~unit_out.is_best /\ ~unit_out.is_good /\ ~unit_out.is_inaccuracy
  /\ ~unit_out.is_mistake /\ ~unit_out.is_blunder

----------------------------------------------------------------------------
(* Specification of one request over a game that goes through the phases *)

\* the layout after each ply of a game of 29 plies: 30 pieces for 20 plies,
\* then 17 without queens, 16 with queens, 13 with queens (after white's
\* 13th move), 12 (after white's 14th move)
PhaseLayout(k) ==
  IF k <= 20 THEN 10 + (k % 10)
  ELSE IF k <= 22 THEN 24
  ELSE IF k <= 24 THEN 22
  ELSE IF k <= 26 THEN 25
  ELSE 21

\* the player has white and moves 15 times
GamePhases ==
  Pgn("ok", HeaderBob, HeaderAl, [k \in 1..29 |-> Node(PhaseLayout(k), None, "a2a3")], 0)
\* the player has black; 16 pieces and no queen are left after black's first move
GameEarlyEndgame ==
  Pgn("ok", HeaderAl, HeaderBob, <<Node(1, None, "e2e4"), Node(23, None, "d8d1")>>, 0)

PhaseGames == {GamePhases, GameEarlyEndgame, GameAborted, GameEmpty, GameRaising}

InitPhase ==
  \E g \in PhaseGames : InitRequest(<<g>>, LongOracle(PhaseGames), TrainedModels)

SpecPhase == InitPhase /\ [][Next]_vars

\* C23: the phase of a record is that of the board after the player's move,
\* with the 1-based index of the move among the player's moves: endgame iff
\* the board has at most 12 pieces, or no queen and at most 16 pieces;
\* otherwise opening iff the index is at most 12; otherwise middlegame.
C23_PhaseOfBoardAfterMove ==
  pc \in {"replay", "pushing"} =>
    \A i \in 1..Len(moves_analysis) :
      LET k == IF player_color = "white" THEN 2 * i - 1 ELSE 2 * i
          layout == CurrentGame.nodes[k].layout
          pieces == LayoutPieces(layout)
          endgame == pieces <= 12 \/ (~LayoutQueens(layout) /\ pieces <= 16)
          m == moves_analysis[i]
      IN /\ m.phase \in {"opening", "middlegame", "endgame"}
         /\ m.phase = "endgame" <=> endgame
         /\ m.phase = "opening" <=> (~endgame /\ i <= 12)
         /\ m.phase = "middlegame" <=> (~endgame /\ i > 12)

C23_Witness ==
  /\ pc = "replay" /\ CurrentGame = GamePhases /\ Len(moves_analysis) = 15
  /\ moves_analysis[11].phase = "opening" /\ moves_analysis[12].phase = "opening"
  /\ moves_analysis[13].phase = "middlegame" /\ moves_analysis[14].phase = "endgame"
  /\ LayoutPieces(CurrentGame.nodes[26].layout) = 13

----------------------------------------------------------------------------
(* Properties of the colour analysed *)

\* C24: the colour analysed is white when the lower-cased player name is part
\* of the lower-cased White header, otherwise black when it is part of the
\* lower-cased Black header, otherwise white; exactly the plies of that colour
\* are evaluated and recorded, and both evaluations of a record are from that
\* colour's perspective: the negation of the value from white's perspective
\* when the colour is black.
C24_ColourAndPerspective ==
  LET name == Lower(player_name)
      ColourOf(g) == IF IsSubstring(name, Lower(g.white)) THEN "white"
                     ELSE IF IsSubstring(name, Lower(g.black)) THEN "black"
                     ELSE "white"
      PlyOf(colour, i) == IF colour = "white" THEN 2 * i - 1 ELSE 2 * i
      Hash(g, k) == _get_position_hash(BoardAt(g, k))
  IN /\ \A h \in DOMAIN returned :
          \E j \in 1..Min(game_idx, Len(batch)) :
            /\ batch[j].kind = "ok"
            /\ \E k \in 1..Len(batch[j].nodes) :
                 /\ (k % 2 = 1) <=> (ColourOf(batch[j]) = "white")
                 /\ h \in {Hash(batch[j], k - 1), Hash(batch[j], k)}
     /\ pc \in {"replay", "pushing"} =>
          /\ player_color = ColourOf(CurrentGame)
          /\ Len(moves_analysis) = PlayerPlies(player_color, node_idx - 1)
          /\ \A i \in 1..Len(moves_analysis) :
               LET k == PlyOf(player_color, i)
                   sign == IF player_color = "black" THEN -1 ELSE 1
                   m == moves_analysis[i]
               IN /\ m.move = CurrentGame.nodes[k].uci
                  /\ \E r \in returned[Hash(CurrentGame, k - 1)] :
                       m.eval_before = sign * r[1]
                  /\ \E r \in returned[Hash(CurrentGame, k)] :
                       m.eval_after = sign * r[1]

C24_Witness ==
  /\ pc = "replay" /\ game_idx = 1 /\ CurrentGame = GameBlack
  /\ player_color = "black" /\ node_idx = 3 /\ Len(moves_analysis) = 1
  /\ moves_analysis[1].move = "e7e5"
  /\ moves_analysis[1].eval_before = MATE_SCORE /\ moves_analysis[1].eval_after = -30
  /\ returned[_get_position_hash(BoardAt(GameBlack, 1))] = {<<-MATE_SCORE, "">>}
  /\ returned[_get_position_hash(BoardAt(GameBlack, 2))] = {<<30, "e2e4">>}

----------------------------------------------------------------------------
(* Specification of _classify_prediction applied on its own to classifiers *)
(* whose class probabilities may tie                                       *)

\* probabilities a class may get, in thousandths
ProbaSamples == {0, 125, 250, 400, 500}

\* the classifier of the tactical category answers with the row proba
InitTies ==
  \E proba \in [1..3 -> ProbaSamples] :
    InitAt("classify_prediction",
           [category |-> "tactical", features_dict |-> ZeroFeatures, proba |-> proba],
           <<>>, FreeOracle({}),
           [c \in {"tactical"} |-> Artifact("proba", FALSE, <<proba>>, TRUE)])

SpecTies == InitTies /\ [][ApplyClassifyPrediction]_vars

\* C25: for a classifier with class probabilities the class predicted has the
\* largest probability, and the lowest index among the classes that tie for
\* the largest; the confidence is the probability of that class (returned to
\* two decimals, the score taken from it before that).
C25_FirstLargestClass ==
  pc = "classified_prediction" =>
    LET proba == unit_in.proba
        largest == CHOOSE v \in Range(proba) : \A w \in Range(proba) : w <= v
        class == IF proba[1] = largest THEN 0 ELSE IF proba[2] = largest THEN 1 ELSE 2
    IN /\ unit_out.classification =
            (IF class = 0 THEN "weak" ELSE IF class = 1 THEN "average" ELSE "excellent")
       /\ unit_out.confidence = RoundHalfEven(largest, 10)
       /\ unit_out.numeric_score =
            (IF class = 0 THEN 0 ELSE IF class = 1 THEN 34 ELSE 68)
              + (largest * (IF class = 2 THEN 32 ELSE 33)) \div 1000

C25_Witness ==
  /\ pc = "classified_prediction"
  /\ unit_in.proba = <<250, 400, 400>>
  /\ unit_out = [classification |-> "average", confidence |-> 40, numeric_score |-> 47]

----------------------------------------------------------------------------
(* Properties of the phase categories *)

\* C26: for a phase category (opening, middlegame, endgame) whose own features,
\* the average loss and the blunder rate of the phase, are both exactly zero,
\* the result is the neutral one (average, 0.5, 50), whatever the classifier
\* of the category would answer.
C26_NeutralWithoutPhaseMoves ==
  pc = "predicted" =>
    /\ (unit_in.avg_cp_loss_opening = 0 /\ unit_in.blunder_rate_opening = 0) =>
         unit_out.predictions["opening"] = CategoryResult("average", 50, 50)
    /\ (unit_in.avg_cp_loss_middlegame = 0 /\ unit_in.blunder_rate_middlegame = 0) =>
         unit_out.predictions["middlegame"] = CategoryResult("average", 50, 50)
    /\ (unit_in.avg_cp_loss_endgame = 0 /\ unit_in.blunder_rate_endgame = 0) =>
         unit_out.predictions["endgame"] = CategoryResult("average", 50, 50)

----------------------------------------------------------------------------
(* Properties of the time features *)

\* C27: time_pressure_moves is the number of timed moves (those with a
\* time_spent) whose clock_remaining is below 60 seconds, or whose time_spent
\* is below both a third of the mean time_spent of the timed moves and 2
\* seconds, divided by the number of timed moves (to six decimals); it is 0
\* without a timed move, and a move without time_spent counts on neither side.
C27_TimePressureRate ==
  pc = "extracted" =>
    LET all == Flatten([i \in 1..Len(unit_in) |-> unit_in[i].moves])
        timed == {i \in 1..Len(all) : all[i].time_spent # None}
        n == Cardinality(timed)
        total == SumSeq([i \in 1..Len(all) |->
                           IF i \in timed THEN all[i].time_spent ELSE 0])
        low == {i \in timed : all[i].clock_remaining # None
                                /\ all[i].clock_remaining < 60 * 100}
        quick == {i \in timed : /\ 3 * n * all[i].time_spent < total
                                /\ all[i].time_spent < 2 * 100}
        count == Cardinality(low \cup quick)
        rate == unit_out.time_pressure_moves
    IN IF n = 0 THEN rate = 0
       ELSE 2 * Max(rate * n - count * Micro, count * Micro - rate * n) <= n

C27_Witness ==
  /\ pc = "extracted" /\ Len(unit_in) = 2
  /\ Len(unit_in[1].moves) = 2 /\ unit_in[1].moves[1].time_spent = None
  /\ unit_in[1].moves[2].time_spent = 500
  /\ Len(unit_in[2].moves) = 3
  /\ unit_in[2].moves[2].clock_remaining = 4000 /\ unit_in[2].moves[2].time_spent = 100
  /\ unit_in[2].moves[3].time_spent = 43
  /\ unit_out.time_pressure_moves = 500000

----------------------------------------------------------------------------
(* Properties of a brilliant move *)

\* C28: every record of analyze_game with is_brilliant has a centipawn loss of
\* 0 and is_best, so that a brilliant move is never good, an inaccuracy, a
\* mistake or a blunder.
C28_BrilliantIsBest ==
  \A m \in AllRecords :
    m.is_brilliant =>
      /\ m.centipawn_loss = 0 /\ m.is_best
      /\ ~m.is_good /\ ~m.is_inaccuracy /\ ~m.is_mistake /\ ~m.is_blunder

C28_Witness ==
  /\ pc = "done" /\ response.status = 200
  /\ \E i \in 1..Len(analyses) : \E j \in 1..Len(analyses[i].moves) :
       LET m == analyses[i].moves[j] IN
       /\ analyses[i].player_color = "black"
       /\ m.is_brilliant /\ m.eval_before = -30 /\ m.eval_after = MATE_SCORE
       /\ m.centipawn_loss = 0 /\ m.is_best

----------------------------------------------------------------------------
(* Specification of _get_predictions applied on its own to one kind of *)
(* artifact for all categories, over a grid of feature vectors         *)

\* feature vectors: losses on either side of the limits 30, 80 and 150 of the
\* rule-based scores, blunder rates on either side of 0.05, 0.15 and 0.30
FeatureGrid ==
  {[ZeroFeatures EXCEPT !.avg_cp_loss = loss, !.avg_cp_loss_opening = loss,
                        !.blunder_rate = blunders, !.blunder_rate_opening = blunders,
                        !.best_moves = best, !.time_pressure_moves = pressed] :
     loss \in {0, 29 * Micro, 75 * Micro, 149 * Micro, 400 * Micro},
     blunders \in {0, 30000, 40000, 166667, 333333, Micro},
     best \in {0, 333333, Micro},
     pressed \in {0, 500000}}

InitBands ==
  \E artifact \in ArtifactSamples : \E features \in FeatureGrid :
    InitAt("get_predictions", features, <<>>, FreeOracle({}),
           [c \in Range(Categories) |-> artifact])

SpecBands == InitBands /\ [][NextInfer]_vars

----------------------------------------------------------------------------
(* Properties of the GameAnalysis returned *)

\* C30: in every GameAnalysis returned by analyze_game total_moves is the
\* number of its records and the k-th record has move_number k; when the
\* replay raises after at least 5 records, the GameAnalysis returned holds
\* exactly the records made before the exception, in their order.
C30_RecordsOfReturnedAnalysis ==
  [][/\ \A i \in 1..Len(analyses') :
          /\ analyses'[i].total_moves = Len(analyses'[i].moves)
          /\ \A k \in 1..Len(analyses'[i].moves) : analyses'[i].moves[k].move_number = k
     /\ (pc \in {"replay", "pushing"} /\ pc' = "batch") =>
          LET e == game_log'[Len(game_log')] IN
          /\ Len(game_log') = Len(game_log) + 1
          /\ e.records = Len(moves_analysis)
          /\ (e.raised /\ Len(moves_analysis) >= 5) => Len(analyses') = Len(analyses) + 1
          /\ Len(analyses') > Len(analyses) =>
               /\ SubSeq(analyses', 1, Len(analyses)) = analyses
               /\ analyses'[Len(analyses')].moves = moves_analysis
               /\ analyses'[Len(analyses')].player_color = player_color]_vars

C30_Witness ==
  /\ pc = "batch" /\ batch[1] = GameLongAborted
  /\ game_log # <<>> /\ game_log[1].raised /\ game_log[1].records = 5
  /\ game_log[1].how = "analysis"
  /\ analyses # <<>> /\ analyses[1].total_moves = 5
  /\ \A k \in 1..5 : analyses[1].moves[k].move_number = k

====
